---- MODULE Spec2Model ----
(***************************************************************************)
(* Model of memo's vault sync integration: local mutation capture, the     *)
(* outbox, the relay log, the change applier (applyChange and the SQL      *)
(* statements it runs against the notes / note_tags / tags / attachments   *)
(* tables) and the Sync orchestration.                                     *)
(***************************************************************************)
EXTENDS Integers, Sequences, FiniteSets, TLC

VARIABLES
    store,      \* the application database of each device
    outbox,     \* the vault store's queue of sealed changes of each device
    watermark,  \* the vault store's last_pulled_seq of each device
    relay,      \* the relay's log; an entry's sequence number is its index
    cfg,        \* the sync configuration of each device
    pc,         \* the command in progress on each device
    nextChange, \* the next change id to hand out
    minted,     \* the entity ids uuid.New has handed out
    hist,       \* the outcome of the last step, if it was a Sync call on its own
    ghost,      \* history kept for the properties only
    probe       \* the last call of the applier in the applier runs

vars == <<store, outbox, watermark, relay, cfg, pc, nextChange, minted, hist,
          ghost, probe>>

(***************************************************************************)
(* Bounds                                                                  *)
(***************************************************************************)
\* total number of change records the devices may create in one behaviour
MaxChanges == 3
\* number of outbox entries one Sync reads and pushes
MaxBatch == 2
\* number of changes the offline device queues in the introspection runs
MaxPending == 101

(***************************************************************************)
(* Value domains                                                           *)
(***************************************************************************)
Devices == {"d1", "d2"}
NoteIds == {"n1", "n2"}
AttIds == {"a1", "a2"}
\* an entity id that uuid.Parse rejects
BadId == "not-a-uuid"
Titles == {"A", "B"}
Contents == {"x", "y"}
\* tag names as typed / transmitted; NewTag lower-cases and trims them
RawTags == {"t", "T ", "u"}
TagLists == {<<>>, <<"t">>, <<"T ", "u">>}
Filenames == {"f", "g"}
\* wall-clock instants in half-second ticks; payloads carry whole seconds
Ticks == {1, 2}
Secs == {0, 1}

EntityNote == "note"
EntityAttachment == "attachment"
OpUpsert == "upsert"
OpDelete == "delete"

\* a missing row of a table
NoRow == [absent |-> TRUE]
\* a payload that json.Unmarshal rejects
Undecodable == [undecodable |-> TRUE]
\* the nil payload of a delete change
NoPayload == [nil |-> TRUE]

\* error values
Ok == "ok"
ErrNoteNotFound == "note not found"
ErrAttachmentNotFound == "attachment not found"
ErrForeignKey == "FOREIGN KEY constraint failed"
ErrDB == "database error"
ErrInvalidID == "invalid ID"
ErrUnmarshal == "unmarshal payload"
ErrBase64 == "decode attachment data"

(***************************************************************************)
(* Time conversions: t.UTC().Unix() and time.Unix(s, 0)                    *)
(***************************************************************************)
Unix(t) == t \div 2

TimeUnix(s) == 2 * s

(***************************************************************************)
(* models.NewTag: strings.ToLower(strings.TrimSpace(name))                 *)
(***************************************************************************)
NewTag(name) ==
    CASE name = "T " -> "t"
      [] name = "t" -> "t"
      [] name = "u" -> "u"
      [] OTHER -> name

(***************************************************************************)
(* The application database (db.schema): one record per device             *)
(***************************************************************************)
EmptyStore ==
    [notes |-> [n \in NoteIds |-> NoRow],
     note_tags |-> [n \in NoteIds |-> {}],
     tags |-> {},
     attachments |-> [a \in AttIds |-> NoRow]]

\* result of a database operation: the new contents and the error
Res(s, e) == [store |-> s, err |-> e]

\* the delete of a note row with foreign keys off: the attachments stay
cascadeNote_NoCascade(s, id) ==
    [s EXCEPT !.notes[id] = NoRow, !.note_tags[id] = {}]

\* ON DELETE CASCADE of note_tags.note_id and attachments.note_id
cascadeNote(s, id) ==
    [s EXCEPT !.notes[id] = NoRow,
              !.note_tags[id] = {},
              !.attachments = [a \in AttIds |->
                    IF s.attachments[a] # NoRow /\ s.attachments[a].note_id = id
                    THEN NoRow ELSE s.attachments[a]]]

\* db.DeleteNote
DeleteNote(s, id) ==
    IF s.notes[id] = NoRow
    THEN Res(s, ErrNoteNotFound)
    ELSE Res(cascadeNote(s, id), Ok)

\* db.DeleteAttachment
DeleteAttachment(s, id) ==
    IF s.attachments[id] = NoRow
    THEN Res(s, ErrAttachmentNotFound)
    ELSE Res([s EXCEPT !.attachments[id] = NoRow], Ok)

\* db.GetOrCreateTag followed by INSERT OR IGNORE INTO note_tags
AddTagToNote(s, id, tagName) ==
    LET tag == NewTag(tagName)
        s1 == [s EXCEPT !.tags = @ \cup {tag}]
    IN  IF id \notin NoteIds \/ s.notes[id] = NoRow
        THEN Res(s1, ErrForeignKey)
        ELSE Res([s1 EXCEPT !.note_tags[id] = @ \cup {tag}], Ok)

\* db.RemoveTagFromNote
RemoveTagFromNote(s, id, tagName) ==
    Res([s EXCEPT !.note_tags[id] = @ \ {NewTag(tagName)}], Ok)

\* db.CreateNote: plain INSERT, the primary key must be new
CreateNote(s, id, row) ==
    IF s.notes[id] # NoRow
    THEN Res(s, ErrDB)
    ELSE Res([s EXCEPT !.notes[id] = row], Ok)

\* db.UpdateNote: title, content and updated_at = time.Now()
UpdateNote(s, id, title, content, now) ==
    IF s.notes[id] = NoRow
    THEN Res(s, ErrNoteNotFound)
    ELSE Res([s EXCEPT !.notes[id].title = title,
                       !.notes[id].content = content,
                       !.notes[id].updated_at = now], Ok)

\* db.CreateAttachment: plain INSERT, note_id REFERENCES notes(id)
CreateAttachment(s, id, row) ==
    IF s.attachments[id] # NoRow
    THEN Res(s, ErrDB)
    ELSE IF row.note_id \notin NoteIds \/ s.notes[row.note_id] = NoRow
    THEN Res(s, ErrForeignKey)
    ELSE Res([s EXCEPT !.attachments[id] = row], Ok)

\* db.ListNoteAttachments: the ids of the attachments of a note
ListNoteAttachments(s, id) ==
    {a \in AttIds : s.attachments[a] # NoRow /\ s.attachments[a].note_id = id}

(***************************************************************************)
(* Change records (vault.Change) and their payloads                        *)
(***************************************************************************)
\* base64.StdEncoding.EncodeToString / DecodeString
B64Encode(d) == <<"b64", d>>

B64Valid(x) == Len(x) = 2 /\ x[1] = "b64"

B64Decode(x) == x[2]

Datas == {"p", "q"}
InvalidB64 == <<"%%">>
MimeTypes == {"text/plain"}

\* the payload map built by QueueNoteChange
NotePayload(title, content, tags, createdAt, updatedAt) ==
    [title |-> title, content |-> content, tags |-> tags,
     created_at |-> Unix(createdAt), updated_at |-> Unix(updatedAt)]

\* the payload map built by QueueAttachmentChange
AttachmentPayload(noteID, filename, mimeType, data, createdAt) ==
    [note_id |-> noteID, filename |-> filename, mime_type |-> mimeType,
     data |-> B64Encode(data), created_at |-> Unix(createdAt)]

\* vault.NewChange, with Deleted set by queueChange for a delete
NewChange(cid, entity, entityID, op, payload) ==
    [changeID |-> cid, entity |-> entity, entityID |-> entityID, op |-> op,
     deleted |-> (op = OpDelete), payload |-> payload]

\* json.Unmarshal into NotePayload: a key the object lacks leaves the zero
\* value of its field
UnmarshalNotePayload(p) ==
    [title |-> IF "title" \in DOMAIN p THEN p.title ELSE "",
     content |-> IF "content" \in DOMAIN p THEN p.content ELSE "",
     tags |-> IF "tags" \in DOMAIN p THEN p.tags ELSE <<>>,
     created_at |-> IF "created_at" \in DOMAIN p THEN p.created_at ELSE 0,
     updated_at |-> IF "updated_at" \in DOMAIN p THEN p.updated_at ELSE 0]

\* json.Unmarshal into AttachmentPayload; the empty string is the base64
\* text of no bytes
UnmarshalAttachmentPayload(p) ==
    [note_id |-> IF "note_id" \in DOMAIN p THEN p.note_id ELSE "",
     filename |-> IF "filename" \in DOMAIN p THEN p.filename ELSE "",
     mime_type |-> IF "mime_type" \in DOMAIN p THEN p.mime_type ELSE "",
     data |-> IF "data" \in DOMAIN p THEN p.data ELSE B64Encode(""),
     created_at |-> IF "created_at" \in DOMAIN p THEN p.created_at ELSE 0]

(***************************************************************************)
(* The change applier.  fault names the SQL statement of the call that     *)
(* returns a database error (0: none); statements are auto-committed, so   *)
(* the statements before it keep their effect.                             *)
(***************************************************************************)
RECURSIVE addTags(_, _, _, _, _)
\* the loop over payload.Tags in applyNoteChange, from index j
addTags(s, id, tagSeq, j, fault) ==
    IF j > Len(tagSeq)
    THEN Res(s, Ok)
    ELSE IF fault = 2 + j
    THEN Res(s, ErrDB)
    ELSE LET r == AddTagToNote(s, id, tagSeq[j])
         IN  IF r.err # Ok THEN r
             ELSE addTags(r.store, id, tagSeq, j + 1, fault)

\* the note statement with ON CONFLICT(id) DO NOTHING: the first writer wins
upsertNoteRow_DoNothing(s, id, p) ==
    IF s.notes[id] = NoRow
    THEN [s EXCEPT !.notes[id] =
              [title |-> p.title, content |-> p.content,
               created_at |-> TimeUnix(p.created_at),
               updated_at |-> TimeUnix(p.updated_at)]]
    ELSE s

\* INSERT INTO notes ... ON CONFLICT(id) DO UPDATE SET title, content, updated_at
upsertNoteRow(s, id, p) ==
    IF s.notes[id] = NoRow
    THEN [s EXCEPT !.notes[id] =
              [title |-> p.title, content |-> p.content,
               created_at |-> TimeUnix(p.created_at),
               updated_at |-> TimeUnix(p.updated_at)]]
    ELSE [s EXCEPT !.notes[id].title = p.title,
                   !.notes[id].content = p.content,
                   !.notes[id].updated_at = TimeUnix(p.updated_at)]

\* applyNoteChange without DELETE FROM note_tags: the payload tags are merged
applyNoteChange_MergeTags(s, c, fault) ==
    IF c.entityID \notin NoteIds
    THEN Res(s, ErrInvalidID)
    ELSE IF c.op = OpDelete \/ c.deleted
    THEN IF fault = 1 THEN Res(s, ErrDB) ELSE DeleteNote(s, c.entityID)
    ELSE IF c.payload = Undecodable
    THEN Res(s, ErrUnmarshal)
    ELSE IF fault = 1
    THEN Res(s, ErrDB)
    ELSE LET payload == UnmarshalNotePayload(c.payload)
             s1 == upsertNoteRow(s, c.entityID, payload)
             s2 == s1
         IN  IF fault = 2
             THEN Res(s1, ErrDB)
             ELSE addTags(s2, c.entityID, payload.tags, 1, fault)

\* applyNoteChange that looks at the operation only, not at the tombstone flag
applyNoteChange_OpOnly(s, c, fault) ==
    IF c.entityID \notin NoteIds
    THEN Res(s, ErrInvalidID)
    ELSE IF c.op = OpDelete
    THEN IF fault = 1 THEN Res(s, ErrDB) ELSE DeleteNote(s, c.entityID)
    ELSE IF c.payload = Undecodable
    THEN Res(s, ErrUnmarshal)
    ELSE IF fault = 1
    THEN Res(s, ErrDB)
    ELSE LET payload == UnmarshalNotePayload(c.payload)
             s1 == upsertNoteRow(s, c.entityID, payload)
             s2 == [s1 EXCEPT !.note_tags[c.entityID] = {}]
         IN  IF fault = 2
             THEN Res(s1, ErrDB)
             ELSE addTags(s2, c.entityID, payload.tags, 1, fault)

applyNoteChange(s, c, fault) ==
    IF c.entityID \notin NoteIds
    THEN Res(s, ErrInvalidID)
    ELSE IF c.op = OpDelete \/ c.deleted
    THEN IF fault = 1 THEN Res(s, ErrDB) ELSE DeleteNote(s, c.entityID)
    ELSE IF c.payload = Undecodable
    THEN Res(s, ErrUnmarshal)
    ELSE IF fault = 1
    THEN Res(s, ErrDB)
    ELSE LET payload == UnmarshalNotePayload(c.payload)
             s1 == upsertNoteRow(s, c.entityID, payload)
             s2 == [s1 EXCEPT !.note_tags[c.entityID] = {}]
         IN  IF fault = 2
             THEN Res(s1, ErrDB)
             ELSE addTags(s2, c.entityID, payload.tags, 1, fault)

\* the attachment statement without its ON CONFLICT clause: a plain INSERT
upsertAttachmentRow_PlainInsert(s, id, p) ==
    IF s.attachments[id] # NoRow
    THEN Res(s, ErrDB)
    ELSE IF s.notes[p.note_id] = NoRow
    THEN Res(s, ErrForeignKey)
    ELSE Res([s EXCEPT !.attachments[id] =
                 [note_id |-> p.note_id, filename |-> p.filename,
                  mime_type |-> p.mime_type, data |-> B64Decode(p.data),
                  created_at |-> TimeUnix(p.created_at)]], Ok)

\* INSERT INTO attachments ... ON CONFLICT(id) DO UPDATE SET filename, mime_type, data
upsertAttachmentRow(s, id, p) ==
    IF s.attachments[id] = NoRow
    THEN IF s.notes[p.note_id] = NoRow
         THEN Res(s, ErrForeignKey)
         ELSE Res([s EXCEPT !.attachments[id] =
                      [note_id |-> p.note_id, filename |-> p.filename,
                       mime_type |-> p.mime_type, data |-> B64Decode(p.data),
                       created_at |-> TimeUnix(p.created_at)]], Ok)
    ELSE Res([s EXCEPT !.attachments[id].filename = p.filename,
                       !.attachments[id].mime_type = p.mime_type,
                       !.attachments[id].data = B64Decode(p.data)], Ok)

\* applyAttachmentChange that skips an upsert it cannot decode
applyAttachmentChange_SkipInvalid(s, c, fault) ==
    IF c.entityID \notin AttIds
    THEN Res(s, ErrInvalidID)
    ELSE IF c.op = OpDelete \/ c.deleted
    THEN IF fault = 1 THEN Res(s, ErrDB) ELSE DeleteAttachment(s, c.entityID)
    ELSE IF c.payload = Undecodable
    THEN Res(s, Ok)
    ELSE IF UnmarshalAttachmentPayload(c.payload).note_id \notin NoteIds
    THEN Res(s, Ok)
    ELSE IF ~B64Valid(UnmarshalAttachmentPayload(c.payload).data)
    THEN Res(s, Ok)
    ELSE IF fault = 1
    THEN Res(s, ErrDB)
    ELSE upsertAttachmentRow(s, c.entityID, UnmarshalAttachmentPayload(c.payload))

applyAttachmentChange(s, c, fault) ==
    IF c.entityID \notin AttIds
    THEN Res(s, ErrInvalidID)
    ELSE IF c.op = OpDelete \/ c.deleted
    THEN IF fault = 1 THEN Res(s, ErrDB) ELSE DeleteAttachment(s, c.entityID)
    ELSE IF c.payload = Undecodable
    THEN Res(s, ErrUnmarshal)
    ELSE IF UnmarshalAttachmentPayload(c.payload).note_id \notin NoteIds
    THEN Res(s, ErrInvalidID)
    ELSE IF ~B64Valid(UnmarshalAttachmentPayload(c.payload).data)
    THEN Res(s, ErrBase64)
    ELSE IF fault = 1
    THEN Res(s, ErrDB)
    ELSE upsertAttachmentRow(s, c.entityID, UnmarshalAttachmentPayload(c.payload))

\* applyChange that reports success whatever the entity handler returned
applyChange_SwallowError(s, c, fault) ==
    CASE c.entity = EntityNote -> Res(applyNoteChange(s, c, fault).store, Ok)
      [] c.entity = EntityAttachment -> Res(applyAttachmentChange(s, c, fault).store, Ok)
      [] OTHER -> Res(s, Ok)

\* applyChange that rejects an entity kind it does not know
applyChange_RejectUnknown(s, c, fault) ==
    CASE c.entity = EntityNote -> applyNoteChange(s, c, fault)
      [] c.entity = EntityAttachment -> applyAttachmentChange(s, c, fault)
      [] OTHER -> Res(s, ErrInvalidID)

applyChange(s, c, fault) ==
    CASE c.entity = EntityNote -> applyNoteChange(s, c, fault)
      [] c.entity = EntityAttachment -> applyAttachmentChange(s, c, fault)
      [] OTHER -> Res(s, Ok)

(***************************************************************************)
(* Initial state: empty databases, empty outboxes, watermark "0"           *)
(***************************************************************************)
NoProbe == [n |-> 0]

NoHist == [op |-> "none"]

\* enq: ids of the changes whose enqueue succeeded; delAtts: <<change id,
\* attachment id>> for the attachment ids handed to TryQueueNoteDelete with a
\* note delete; took: per device, the sequence numbers whose change took
\* effect when applied
NoGhost ==
    [enq |-> {}, delAtts |-> {}, took |-> [d \in Devices |-> {}]]

InitBase ==
    /\ store = [d \in Devices |-> EmptyStore]
    /\ outbox = [d \in Devices |-> <<>>]
    /\ watermark = [d \in Devices |-> 0]
    /\ relay = <<>>
    /\ pc = [d \in Devices |-> [op |-> "idle"]]
    /\ nextChange = 1
    /\ minted = {}
    /\ hist = NoHist
    /\ ghost = NoGhost
    /\ probe = NoProbe

(***************************************************************************)
(* Applier runs: changes as a relay can deliver them are applied, one      *)
(* after the other, to the database of device d1.                          *)
(***************************************************************************)
ProbeNotePayloads ==
    {[title |-> "A", content |-> "x", tags |-> <<"t">>,
      created_at |-> 0, updated_at |-> 0],
     [title |-> "B", content |-> "y", tags |-> <<"T ", "u">>,
      created_at |-> 1, updated_at |-> 1],
     [title |-> "B", content |-> "x", tags |-> <<>>,
      created_at |-> 0, updated_at |-> 1]}

ProbeAttachmentPayloads ==
    {[note_id |-> "n1", filename |-> "f", mime_type |-> "text/plain",
      data |-> B64Encode("p"), created_at |-> 0],
     [note_id |-> "n2", filename |-> "g", mime_type |-> "text/plain",
      data |-> B64Encode("q"), created_at |-> 1]}

\* changes with operation upsert, a payload, and the tombstone flag set
TombstoneChanges ==
    {[NewChange(0, EntityNote, id, OpUpsert,
                [title |-> "B", content |-> "y", tags |-> <<"T ", "u">>,
                 created_at |-> 1, updated_at |-> 1]) EXCEPT !.deleted = TRUE] :
        id \in NoteIds}
    \cup {[NewChange(0, EntityAttachment, id, OpUpsert,
                     [note_id |-> "n1", filename |-> "f", mime_type |-> "text/plain",
                      data |-> B64Encode("p"), created_at |-> 0])
              EXCEPT !.deleted = TRUE] : id \in AttIds}

ProbeChanges ==
    {NewChange(0, EntityNote, id, OpUpsert, p) :
        id \in NoteIds, p \in ProbeNotePayloads}
    \cup {NewChange(0, EntityNote, id, OpDelete, NoPayload) : id \in NoteIds}
    \cup {NewChange(0, EntityAttachment, id, OpUpsert, p) :
        id \in AttIds, p \in ProbeAttachmentPayloads}
    \cup {NewChange(0, EntityAttachment, id, OpDelete, NoPayload) : id \in AttIds}
    \cup {NewChange(0, "task", "n1", OpUpsert, NoPayload)}
    \cup TombstoneChanges

IsDelete(c) == c.op = OpDelete \/ c.deleted

\* the row a change is about, in a database
TargetRow(s, c) ==
    CASE c.entity = EntityNote /\ c.entityID \in NoteIds -> s.notes[c.entityID]
      [] c.entity = EntityAttachment /\ c.entityID \in AttIds -> s.attachments[c.entityID]
      [] OTHER -> NoRow

\* one call of applyChange on d1; n counts the successive calls with the same change
ProbeApply(c) ==
    LET r == applyChange(store["d1"], c, 0)
        again == probe.n = 1 /\ probe.c = c
    IN  /\ store' = [store EXCEPT !["d1"] = r.store]
        /\ probe' = [n |-> IF again THEN 2 ELSE 1,
                     c |-> c,
                     err |-> r.err,
                     pre |-> store["d1"],
                     first |-> IF again THEN [err |-> probe.err, store |-> store["d1"]]
                               ELSE r]
        /\ UNCHANGED <<outbox, watermark, relay, cfg, pc, nextChange, minted,
                       hist, ghost>>

InitApply ==
    /\ InitBase
    /\ cfg = [d \in Devices |-> [autoSync |-> FALSE]]

NextApply == \E c \in ProbeChanges : ProbeApply(c)

SpecApply == InitApply /\ [][NextApply]_vars

\* C1: a delete change (operation delete or tombstone flag) for a note or
\* attachment id that is absent from the local store returns success and
\* leaves the store unchanged.
C1_IdempotentDelete ==
    (probe.n >= 1 /\ probe.c.entity \in {EntityNote, EntityAttachment}
        /\ IsDelete(probe.c) /\ TargetRow(probe.pre, probe.c) = NoRow)
    => (probe.err = Ok /\ store["d1"] = probe.pre)

\* C10: applying the same upsert change twice in succession returns success
\* both times and leaves exactly the state the first application produced.
C10_IdempotentUpsert ==
    (probe.n = 2 /\ ~IsDelete(probe.c)
        /\ probe.c.entity \in {EntityNote, EntityAttachment}
        /\ probe.first.err = Ok)
    => (probe.err = Ok /\ store["d1"] = probe.first.store)

C10_Witness ==
    /\ probe.n = 2 /\ ~IsDelete(probe.c)
    /\ probe.c.entity \in {EntityNote, EntityAttachment}
    /\ probe.first.err = Ok /\ probe.err = Ok
    /\ probe.first.store # EmptyStore

\* C11: after an upsert is applied to an entity that already exists
\* locally, every synchronized field of the local entity equals the value in
\* the payload (note: title, content, created_at, updated_at; attachment:
\* note_id, filename, mime_type, data, created_at).
C11_UpsertReplacesFields ==
    (/\ probe.n >= 1 /\ ~IsDelete(probe.c) /\ probe.err = Ok
     /\ probe.c.entity \in {EntityNote, EntityAttachment}
     /\ TargetRow(probe.pre, probe.c) # NoRow)
    => LET p == probe.c.payload
           row == TargetRow(store["d1"], probe.c)
       IN  IF probe.c.entity = EntityNote
           THEN row = [title |-> p.title, content |-> p.content,
                       created_at |-> TimeUnix(p.created_at),
                       updated_at |-> TimeUnix(p.updated_at)]
           ELSE row = [note_id |-> p.note_id, filename |-> p.filename,
                       mime_type |-> p.mime_type, data |-> B64Decode(p.data),
                       created_at |-> TimeUnix(p.created_at)]

C22_TombstoneDeletes ==
    (probe.n >= 1 /\ IsDelete(probe.c)
        /\ probe.c.entity \in {EntityNote, EntityAttachment})
    => LET plain == applyChange(probe.pre,
                        NewChange(0, probe.c.entity, probe.c.entityID, OpDelete,
                                  NoPayload), 0)
       IN  /\ probe.err = plain.err
           /\ store["d1"] = plain.store
           /\ TargetRow(probe.pre, probe.c) # NoRow
                => (probe.err = Ok /\ TargetRow(store["d1"], probe.c) = NoRow)

\* an upsert with the tombstone flag and a full payload removed a note that
\* had an attachment
C22_Witness ==
    /\ probe.n >= 1 /\ probe.c.op = OpUpsert /\ probe.c.deleted
    /\ probe.c.entity = EntityNote
    /\ probe.c.payload # NoPayload
    /\ probe.pre.notes[probe.c.entityID] # NoRow
    /\ \E a \in AttIds : /\ probe.pre.attachments[a] # NoRow
                         /\ probe.pre.attachments[a].note_id = probe.c.entityID
    /\ store["d1"].notes[probe.c.entityID] = NoRow

(***************************************************************************)
(* Sync configuration and the sealed envelope                              *)
(***************************************************************************)
ErrNotConfigured == "sync not configured"
ErrEnqueue == "enqueue change"
ErrPush == "push failed"
ErrPull == "pull failed"
ErrOpen == "decrypt failed"
ErrCancelled == "context canceled"

Min(a, b) == IF a < b THEN a ELSE b

\* the Config a logged-in device holds
ConfigOf(d, auto) ==
    [server |-> "https://relay", token |-> "token", userID |-> "user",
     deviceID |-> d, derivedKey |-> "seed", autoSync |-> auto]

canSync(c) == c.server # "" /\ c.token # "" /\ c.userID # ""

\* vault.Encrypt under the AAD of (user id, device id): the outbox entry
Seal(c, change) ==
    [change |-> change, userID |-> c.userID, deviceID |-> c.deviceID,
     key |-> c.derivedKey]

\* vault.Decrypt by a receiver that rebuilds the AAD from its own user id
\* and the entry's device id
Open(c, e) == e.userID = c.userID /\ e.key = c.derivedKey

\* store.DequeueBatch: a peek at the oldest entries
DequeueBatch(q, limit) == SubSeq(q, 1, Min(Len(q), limit))

\* the part of a device's persistent state that a command works on
World(d) ==
    [store |-> store[d], outbox |-> outbox[d], watermark |-> watermark[d],
     relay |-> relay]

\* outcome of a command: new world, returned error, the phase that ended it,
\* the sequence numbers applied with effect, whether a change was enqueued,
\* whether the environment's database error was hit
Out(w, err, phase, took, enq) ==
    [w |-> w, err |-> err, phase |-> phase, took |-> took, enq |-> enq,
     hit |-> FALSE]

\* the effect a change is meant to have on a database
Effect(s, c) ==
    CASE c.entity = EntityNote /\ IsDelete(c) ->
            c.entityID \in NoteIds /\ s.notes[c.entityID] = NoRow
      [] c.entity = EntityNote /\ ~IsDelete(c) ->
            /\ c.entityID \in NoteIds
            /\ c.payload # Undecodable
            /\ s.notes[c.entityID] # NoRow
            /\ s.notes[c.entityID].title = UnmarshalNotePayload(c.payload).title
            /\ s.notes[c.entityID].content = UnmarshalNotePayload(c.payload).content
            /\ s.note_tags[c.entityID]
                 = {NewTag(UnmarshalNotePayload(c.payload).tags[j]) : j \in DOMAIN UnmarshalNotePayload(c.payload).tags}
      [] c.entity = EntityAttachment /\ IsDelete(c) ->
            c.entityID \in AttIds /\ s.attachments[c.entityID] = NoRow
      [] c.entity = EntityAttachment /\ ~IsDelete(c) ->
            /\ c.entityID \in AttIds
            /\ c.payload # Undecodable
            /\ s.attachments[c.entityID] # NoRow
            /\ s.attachments[c.entityID].filename = UnmarshalAttachmentPayload(c.payload).filename
      [] OTHER -> TRUE

(***************************************************************************)
(* vault.Sync: push the outbox batch, acknowledge it, pull everything      *)
(* after the watermark, open and apply each entry in sequence order, then  *)
(* store the new watermark.  o is what the environment does to this call:  *)
(* a transport failure of the push or the pull, a tampered entry k, a       *)
(* database error in statement o.fault of the k-th apply, or a cancelled   *)
(* context noticed in the push, in the pull or before the k-th apply.      *)
(***************************************************************************)
RECURSIVE applyItems(_, _, _, _, _, _)
applyItems(s, items, i, base, c, o) ==
    IF i > Len(items)
    THEN [store |-> s, err |-> Ok, phase |-> "done", took |-> {}, hit |-> FALSE]
    ELSE IF o.kind = "cancel" /\ o.at = "apply" /\ o.k = i
    THEN [store |-> s, err |-> ErrCancelled, phase |-> "apply", took |-> {},
          hit |-> FALSE]
    ELSE IF (o.kind = "openFail" /\ o.k = i) \/ ~Open(c, items[i])
    THEN [store |-> s, err |-> ErrOpen, phase |-> "open", took |-> {}, hit |-> FALSE]
    ELSE LET f == IF o.kind = "applyFault" /\ o.k = i THEN o.fault ELSE 0
             r == applyChange(s, items[i].change, f)
         IN  IF r.err # Ok
             THEN [store |-> r.store, err |-> r.err, phase |-> "apply", took |-> {},
                   hit |-> f # 0]
             ELSE LET rest == applyItems(r.store, items, i + 1, base, c, o)
                  IN  [rest EXCEPT !.took = @ \cup
                          (IF Effect(r.store, items[i].change) THEN {base + i} ELSE {}),
                                   !.hit = @ \/ f # 0]

\* the entries a pull from sequence number since returns
Pull(log, since) == SubSeq(log, since + 1, Len(log))

\* a Sync that stores the new watermark whether or not the batch applied
VaultSync_PartialCommit(w, c, o) ==
    LET batch == DequeueBatch(w.outbox, MaxBatch)
        cancelled(at) == o.kind = "cancel" /\ o.at = at
    IN  IF batch # <<>> /\ (o.kind = "pushFail" \/ cancelled("push"))
        THEN Out(w, IF o.kind = "pushFail" THEN ErrPush ELSE ErrCancelled,
                 "push", {}, FALSE)
        ELSE LET w1 == [w EXCEPT !.relay = @ \o batch,
                                 !.outbox = SubSeq(@, Len(batch) + 1, Len(@))]
             IN  IF o.kind = "pullFail" \/ cancelled("pull")
                 THEN Out(w1, IF o.kind = "pullFail" THEN ErrPull ELSE ErrCancelled,
                          "pull", {}, FALSE)
                 ELSE LET items == Pull(w1.relay, w1.watermark)
                          r == applyItems(w1.store, items, 1, w1.watermark, c, o)
                      IN  [Out([w1 EXCEPT !.store = r.store,
                                          !.watermark = Len(w1.relay)],
                               r.err, r.phase, r.took, FALSE) EXCEPT !.hit = r.hit]

\* a Sync that acknowledges its batch before the relay accepted it
VaultSync_AckFirst(w, c, o) ==
    LET batch == DequeueBatch(w.outbox, MaxBatch)
        cancelled(at) == o.kind = "cancel" /\ o.at = at
    IN  IF batch # <<>> /\ (o.kind = "pushFail" \/ cancelled("push"))
        THEN Out([w EXCEPT !.outbox = SubSeq(@, Len(batch) + 1, Len(@))],
                 IF o.kind = "pushFail" THEN ErrPush ELSE ErrCancelled,
                 "push", {}, FALSE)
        ELSE LET w1 == [w EXCEPT !.relay = @ \o batch,
                                 !.outbox = SubSeq(@, Len(batch) + 1, Len(@))]
             IN  IF o.kind = "pullFail" \/ cancelled("pull")
                 THEN Out(w1, IF o.kind = "pullFail" THEN ErrPull ELSE ErrCancelled,
                          "pull", {}, FALSE)
                 ELSE LET items == Pull(w1.relay, w1.watermark)
                          r == applyItems(w1.store, items, 1, w1.watermark, c, o)
                      IN  [Out([w1 EXCEPT !.store = r.store,
                                          !.watermark = IF r.err = Ok
                                                        THEN Len(w1.relay) ELSE @],
                               r.err, r.phase, r.took, FALSE) EXCEPT !.hit = r.hit]

VaultSync(w, c, o) ==
    LET batch == DequeueBatch(w.outbox, MaxBatch)
        cancelled(at) == o.kind = "cancel" /\ o.at = at
    IN  IF batch # <<>> /\ (o.kind = "pushFail" \/ cancelled("push"))
        THEN Out(w, IF o.kind = "pushFail" THEN ErrPush ELSE ErrCancelled,
                 "push", {}, FALSE)
        ELSE LET w1 == [w EXCEPT !.relay = @ \o batch,
                                 !.outbox = SubSeq(@, Len(batch) + 1, Len(@))]
             IN  IF o.kind = "pullFail" \/ cancelled("pull")
                 THEN Out(w1, IF o.kind = "pullFail" THEN ErrPull ELSE ErrCancelled,
                          "pull", {}, FALSE)
                 ELSE LET items == Pull(w1.relay, w1.watermark)
                          r == applyItems(w1.store, items, 1, w1.watermark, c, o)
                      IN  [Out([w1 EXCEPT !.store = r.store,
                                          !.watermark = IF r.err = Ok
                                                        THEN Len(w1.relay) ELSE @],
                               r.err, r.phase, r.took, FALSE) EXCEPT !.hit = r.hit]

\* SyncWithEvents without the canSync check
Sync_NoCheck(w, c, o) == VaultSync(w, c, o)

\* Syncer.Sync / SyncWithEvents
Sync(w, c, o) ==
    IF ~canSync(c)
    THEN Out(w, ErrNotConfigured, "config", {}, FALSE)
    ELSE VaultSync(w, c, o)

\* queueChange that reports the change as queued without writing the outbox
queueChange_NoEnqueue(w, c, change, q) ==
    IF ~q.writable
    THEN Out(w, ErrEnqueue, "enqueue", {}, FALSE)
    ELSE IF c.autoSync /\ canSync(c)
    THEN [Sync(w, c, q.sync) EXCEPT !.enq = TRUE]
    ELSE Out(w, Ok, "queued", {}, TRUE)

\* Syncer.queueChange; q.writable: the outbox accepts the entry
\* queueChange that syncs after every enqueue, whatever AutoSync says
queueChange_AlwaysSync(w, c, change, q) ==
    IF ~q.writable
    THEN Out(w, ErrEnqueue, "enqueue", {}, FALSE)
    ELSE LET w1 == [w EXCEPT !.outbox = Append(@, Seal(c, change))]
         IN  IF canSync(c)
             THEN [Sync(w1, c, q.sync) EXCEPT !.enq = TRUE]
             ELSE Out(w1, Ok, "queued", {}, TRUE)

queueChange(w, c, change, q) ==
    IF ~q.writable
    THEN Out(w, ErrEnqueue, "enqueue", {}, FALSE)
    ELSE LET w1 == [w EXCEPT !.outbox = Append(@, Seal(c, change))]
         IN  IF c.autoSync /\ canSync(c)
             THEN [Sync(w1, c, q.sync) EXCEPT !.enq = TRUE]
             ELSE Out(w1, Ok, "queued", {}, TRUE)

ErrNoKey == "derived key not configured"
ErrBadKey == "invalid derived key"

\* NewSyncer: the error it returns; the key checks come before the vault
\* store is opened and before the client is built
NewSyncer(c) ==
    IF c.derivedKey = "" THEN ErrNoKey
    ELSE IF c.derivedKey = "invalid-key-format" THEN ErrBadKey
    ELSE Ok

\* NewSyncer: the derived key must be present and parse as a seed phrase
NewSyncerOk(c) == c.derivedKey # "" /\ c.derivedKey # "invalid-key-format"

\* TryQueueNoteChange / TryQueueAttachmentChange: skip silently without a key
TryQueueChange(w, c, change, q) ==
    IF c.derivedKey = "" \/ ~NewSyncerOk(c)
    THEN Out(w, Ok, "skipped", {}, FALSE)
    ELSE queueChange(w, c, change, q)

\* Config.IsConfigured: relay address, auth token, account id and derived
\* key are all present
IsConfigured(c) == canSync(c) /\ c.derivedKey # ""

\* TrySync that goes on to NewSyncer and Sync without asking IsConfigured
TrySync_NoIsConfigured(w, c, o) ==
    IF ~NewSyncerOk(c)
    THEN Out(w, Ok, "skipped", {}, FALSE)
    ELSE Sync(w, c, o)

\* TrySync
TrySync(w, c, o) ==
    IF ~IsConfigured(c) \/ ~NewSyncerOk(c)
    THEN Out(w, Ok, "skipped", {}, FALSE)
    ELSE Sync(w, c, o)

RECURSIVE queueNoteDeletes(_, _, _, _, _, _, _)
\* the body of TryQueueNoteDelete from the i-th attachment id on: a
\* QueueAttachmentChange(OpDelete) per id, returning at the first error,
\* then QueueNoteChange(OpDelete)
queueNoteDeletes(w, c, cid, noteID, atts, i, q) ==
    IF i > Len(atts)
    THEN queueChange(w, c, NewChange(cid + Len(atts), EntityNote, noteID, OpDelete,
                                    NoPayload), q)
    ELSE LET r == queueChange(w, c, NewChange(cid + i - 1, EntityAttachment, atts[i],
                                             OpDelete, NoPayload), q)
         IN  IF r.err # Ok THEN r
             ELSE queueNoteDeletes(r.w, c, cid, noteID, atts, i + 1, q)

\* TryQueueNoteDelete
TryQueueNoteDelete(w, c, cid, noteID, atts, q) ==
    IF c.derivedKey = "" \/ ~NewSyncerOk(c)
    THEN Out(w, Ok, "skipped", {}, FALSE)
    ELSE queueNoteDeletes(w, c, cid, noteID, atts, 1, q)

(***************************************************************************)
(* The commands of a device                                                *)
(***************************************************************************)
\* the SQL statement of an apply that the environment lets fail, and the
\* positions in a pulled batch where it makes an open or an apply fail
FaultPoints == {1}
FaultAt == {1, 2}

\* what the environment does to a Sync call: nothing, a transport failure,
\* an entry that fails authentication, a database error that is gone on the
\* next call
SyncOutcomes ==
    {[kind |-> "ok"], [kind |-> "pushFail"], [kind |-> "pullFail"]}
    \cup {[kind |-> "openFail", k |-> k] : k \in FaultAt}
    \cup {[kind |-> "applyFault", k |-> k, fault |-> f] : k \in FaultAt, f \in FaultPoints}

\* what the environment does to a queueChange of configuration c: the outbox
\* accepts the entry, and the auto-triggered Sync, if any, meets outcome o
QueueOutcomes(c, outcomes) ==
    {[writable |-> TRUE, sync |-> o] :
        o \in IF c.autoSync /\ c.server # "" /\ c.token # "" /\ c.userID # ""
              THEN outcomes ELSE {[kind |-> "ok"]}}

\* the same, or the outbox refuses the write
EnqueueOutcomes(c, outcomes) ==
    QueueOutcomes(c, outcomes) \cup {[writable |-> FALSE, sync |-> [kind |-> "ok"]]}

\* the environment's failure is the one that ended the call
Effective(o, r) ==
    \/ o.kind = "ok"
    \/ o.kind = "pushFail" /\ r.phase = "push"
    \/ o.kind = "pullFail" /\ r.phase = "pull"
    \/ o.kind = "openFail" /\ r.phase = "open"
    \/ o.kind = "applyFault" /\ r.hit
    \/ o.kind = "cancel" /\ r.err = ErrCancelled /\ r.phase = o.at

Idle == [op |-> "idle"]

\* a set of at most two elements as the list a query returns, in either order
Lists(S) ==
    IF S = {} THEN {<<>>}
    ELSE IF Cardinality(S) = 1 THEN {<<x>> : x \in S}
    ELSE {l \in {<<x, y>> : x \in S, y \in S} : l[1] # l[2]}

\* db.GetNoteTags: the tag names of a note
GetNoteTags(s, id) == CHOOSE l \in Lists(s.note_tags[id]) : TRUE

\* collectTags: the trimmed, lower-cased tags of the --tags flag
collectTags(tagSeq) == [j \in DOMAIN tagSeq |-> NewTag(tagSeq[j])]

RECURSIVE addLocalTags(_, _, _, _)
\* the AddTagToNote loop of addCmd and importJSON
addLocalTags(s, id, tagSeq, j) ==
    IF j > Len(tagSeq) THEN s
    ELSE addLocalTags(AddTagToNote(s, id, tagSeq[j]).store, id, tagSeq, j + 1)

\* uuid.New: an id that was never handed out (ids are interchangeable, the
\* first unused one stands for any)
NewId(ids) ==
    LET ord == <<"n1", "n2", "a1", "a2">>
        free(i) == ord[i] \in ids \ minted
    IN  ord[CHOOSE i \in DOMAIN ord : free(i) /\ \A j \in 1..(i - 1) : ~free(j)]

\* write a command's outcome back to the device and the relay
Commit(d, r) ==
    /\ store' = [store EXCEPT ![d] = r.w.store]
    /\ outbox' = [outbox EXCEPT ![d] = r.w.outbox]
    /\ watermark' = [watermark EXCEPT ![d] = r.w.watermark]
    /\ relay' = r.w.relay

\* the ghost history after a capture of note id by change cid
Captured(d, r, cid, id) ==
    [ghost EXCEPT !.enq = IF r.enq THEN @ \cup {cid} ELSE @,
                  !.took[d] = @ \cup r.took]

\* the record of a finished CLI write command: failed, the capture helper
\* returned an error; untouched, the auto-triggered Sync changed nothing in
\* the database; ok, the command reported success; kept, the local write is
\* in effect when the command ends
CmdHist(cmd, failed, untouched, ok, kept) ==
    [op |-> "cmd", cmd |-> cmd, failed |-> failed, untouched |-> untouched,
     ok |-> ok, kept |-> kept]

\* the note ids and attachment ids uuid.New hands out in the system runs
FreshNoteIds == {"n1"}
FreshAttIds == {"a1", "a2"}

\* what the user types into memo add: title, --tags, and the time of the call
AddInputs == {[title |-> "B", tags |-> <<"T ", "u">>, now |-> 2]}

\* the instants of Touch and of UpdateNote's time.Now in memo edit, and the
\* texts the user leaves the editor with
EditTimes == {<<1, 2>>}
EditContents == {"y", "z"}

\* memo add: NewNote, CreateNote, AddTagToNote per tag, TryQueueNoteChange
Add(d, in, q) ==
    /\ pc[d] = Idle
    /\ nextChange <= MaxChanges
    /\ FreshNoteIds \ minted # {}
    /\ LET id == NewId(FreshNoteIds)
           row == [title |-> in.title, content |-> "x",
                   created_at |-> in.now, updated_at |-> in.now]
           s1 == addLocalTags(CreateNote(store[d], id, row).store, id, in.tags, 1)
           c == NewChange(nextChange, EntityNote, id, OpUpsert,
                    NotePayload(in.title, "x", collectTags(in.tags), in.now, in.now))
       IN  \E r \in {TryQueueChange([World(d) EXCEPT !.store = s1], cfg[d], c, q)} :
               /\ Effective(q.sync, r)
               /\ Commit(d, r)
               /\ ghost' = Captured(d, r, nextChange, id)
               /\ minted' = minted \cup {id}
               /\ hist' = CmdHist("add", r.err # Ok, r.w.store = s1, TRUE,
                                  /\ r.w.store.notes[id] # NoRow
                                  /\ r.w.store.notes[id].title = in.title)
    /\ nextChange' = nextChange + 1
    /\ UNCHANGED <<cfg, pc, probe>>

\* memo edit: Touch, UpdateNote, GetNoteTags, TryQueueNoteChange
Edit(d, id, newContent, times, q) ==
    /\ pc[d] = Idle
    /\ nextChange <= MaxChanges
    /\ store[d].notes[id] # NoRow
    /\ newContent # store[d].notes[id].content
    /\ LET note == store[d].notes[id]
           s1 == UpdateNote(store[d], id, note.title, newContent, times[2]).store
           c == NewChange(nextChange, EntityNote, id, OpUpsert,
                    NotePayload(note.title, newContent, GetNoteTags(s1, id),
                                note.created_at, times[1]))
       IN  \E r \in {TryQueueChange([World(d) EXCEPT !.store = s1], cfg[d], c, q)} :
               /\ Effective(q.sync, r)
               /\ Commit(d, r)
               /\ ghost' = Captured(d, r, nextChange, id)
               /\ hist' = CmdHist("edit", r.err # Ok, r.w.store = s1, TRUE,
                                  /\ r.w.store.notes[id] # NoRow
                                  /\ r.w.store.notes[id].content = newContent)
    /\ nextChange' = nextChange + 1
    /\ UNCHANGED <<cfg, pc, minted, probe>>

\* queueNoteTagSync: GetNoteTags, TryQueueNoteChange with the note as it was
\* read before the tag write
queueNoteTagSync(w, c, cid, id, note, q) ==
    TryQueueChange(w, c,
        NewChange(cid, EntityNote, id, OpUpsert,
            NotePayload(note.title, note.content, GetNoteTags(w.store, id),
                        note.created_at, note.updated_at)), q)

\* memo tag add: AddTagToNote, queueNoteTagSync
TagAdd(d, id, tagName, q) ==
    /\ pc[d] = Idle
    /\ nextChange <= MaxChanges
    /\ store[d].notes[id] # NoRow
    /\ LET s1 == AddTagToNote(store[d], id, tagName).store
       IN  \E r \in {queueNoteTagSync([World(d) EXCEPT !.store = s1], cfg[d],
                                       nextChange, id, store[d].notes[id], q)} :
               /\ Effective(q.sync, r)
               /\ Commit(d, r)
               /\ ghost' = Captured(d, r, nextChange, id)
               /\ hist' = CmdHist("tag add", r.err # Ok, r.w.store = s1, TRUE,
                                  NewTag(tagName) \in r.w.store.note_tags[id])
    /\ nextChange' = nextChange + 1
    /\ UNCHANGED <<cfg, pc, minted, probe>>

\* memo tag rm: RemoveTagFromNote, queueNoteTagSync
TagRm(d, id, tagName, q) ==
    /\ pc[d] = Idle
    /\ nextChange <= MaxChanges
    /\ store[d].notes[id] # NoRow
    /\ NewTag(tagName) \in store[d].note_tags[id]
    /\ LET s1 == RemoveTagFromNote(store[d], id, tagName).store
       IN  \E r \in {queueNoteTagSync([World(d) EXCEPT !.store = s1], cfg[d],
                                       nextChange, id, store[d].notes[id], q)} :
               /\ Effective(q.sync, r)
               /\ Commit(d, r)
               /\ ghost' = Captured(d, r, nextChange, id)
               /\ hist' = CmdHist("tag rm", r.err # Ok, r.w.store = s1, TRUE,
                                  NewTag(tagName) \notin r.w.store.note_tags[id])
    /\ nextChange' = nextChange + 1
    /\ UNCHANGED <<cfg, pc, minted, probe>>

\* memo import (JSON) of one note with n attachments: CreateNote,
\* CreateAttachment; nothing is queued
Import(d, n) ==
    /\ pc[d] = Idle
    /\ FreshNoteIds \ minted # {}
    /\ n <= Cardinality(FreshAttIds \ minted)
    /\ LET id == NewId(FreshNoteIds)
           atts == IF n = 0 THEN {}
                   ELSE IF n = 1 THEN {NewId(FreshAttIds)}
                   ELSE FreshAttIds \ minted
           row == [title |-> "A", content |-> "x", created_at |-> 1, updated_at |-> 1]
           s1 == CreateNote(store[d], id, row).store
           s2 == [s1 EXCEPT !.attachments = [a \in AttIds |->
                     IF a \in atts
                     THEN [note_id |-> id, filename |-> "f", mime_type |-> "text/plain",
                           data |-> "p", created_at |-> 1]
                     ELSE @[a]]]
       IN  /\ store' = [store EXCEPT ![d] = s2]
           /\ minted' = minted \cup {id} \cup atts
    /\ hist' = NoHist
    /\ UNCHANGED <<outbox, watermark, relay, cfg, pc, nextChange, ghost, probe>>

\* TryQueueAttachmentChange with the snapshot of a local attachment
QueueAttachment(d, a, q) ==
    /\ pc[d] = Idle
    /\ nextChange <= MaxChanges
    /\ store[d].attachments[a] # NoRow
    /\ LET att == store[d].attachments[a]
           c == NewChange(nextChange, EntityAttachment, a, OpUpsert,
                    AttachmentPayload(att.note_id, att.filename, att.mime_type,
                                      att.data, att.created_at))
       IN  \E r \in {TryQueueChange(World(d), cfg[d], c, q)} :
               /\ Effective(q.sync, r)
               /\ Commit(d, r)
               /\ ghost' = [ghost EXCEPT !.enq = IF r.enq THEN @ \cup {nextChange} ELSE @,
                                         !.took[d] = @ \cup r.took]
    /\ hist' = NoHist
    /\ nextChange' = nextChange + 1
    /\ UNCHANGED <<cfg, pc, minted, probe>>

\* memo rm, up to the call of TryQueueNoteDelete: GetNoteByPrefix,
\* ListNoteAttachments, LoadConfig and NewSyncer
RmStart(d, id, atts) ==
    /\ pc[d] = Idle
    /\ store[d].notes[id] # NoRow
    /\ atts \in Lists(ListNoteAttachments(store[d], id))
    /\ nextChange + Len(atts) <= MaxChanges
    /\ pc' = [pc EXCEPT ![d] =
                [op |-> "rm", note |-> id, atts |-> atts, i |-> 0,
                 stage |-> IF cfg[d].derivedKey = "" \/ ~NewSyncerOk(cfg[d])
                           THEN "local" ELSE "queue",
                 writable |-> TRUE, queued |-> 0, noteQueued |-> FALSE,
                 failed |-> FALSE, untouched |-> TRUE]]
    /\ hist' = NoHist
    /\ UNCHANGED <<store, outbox, watermark, relay, cfg, nextChange, minted,
                   ghost, probe>>

\* TryQueueNoteDelete, one round of the loop: QueueAttachmentChange(OpDelete)
RmQueueAttachment(d, q) ==
    /\ pc[d].op = "rm" /\ pc[d].stage = "queue" /\ pc[d].i < Len(pc[d].atts)
    /\ LET a == pc[d].atts[pc[d].i + 1]
           c == NewChange(nextChange, EntityAttachment, a, OpDelete, NoPayload)
       IN  \E r \in {queueChange(World(d), cfg[d], c, q)} :
               /\ Effective(q.sync, r)
               /\ Commit(d, r)
               /\ pc' = [pc EXCEPT ![d].i = @ + 1,
                                   ![d].failed = @ \/ r.err # Ok,
                                   ![d].untouched = @ /\ r.w.store = store[d],
                                   ![d].writable = @ /\ q.writable,
                                   ![d].queued = IF r.enq THEN @ + 1 ELSE @,
                                   ![d].stage = IF r.err # Ok THEN "local" ELSE "queue"]
               /\ ghost' = [ghost EXCEPT
                      !.enq = IF r.enq THEN @ \cup {nextChange} ELSE @,
                      !.took[d] = @ \cup r.took]
    /\ hist' = NoHist
    /\ nextChange' = nextChange + 1
    /\ UNCHANGED <<cfg, minted, probe>>

\* TryQueueNoteDelete that queues the note delete first and nothing after it
RmQueueNote_First(d, q) ==
    /\ pc[d].op = "rm" /\ pc[d].stage = "queue" /\ pc[d].i = 0
    /\ LET c == NewChange(nextChange, EntityNote, pc[d].note, OpDelete, NoPayload)
       IN  \E r \in {queueChange(World(d), cfg[d], c, q)} :
               /\ Effective(q.sync, r)
               /\ Commit(d, r)
               /\ pc' = [pc EXCEPT ![d].failed = @ \/ r.err # Ok,
                                   ![d].untouched = @ /\ r.w.store = store[d],
                                   ![d].writable = @ /\ q.writable,
                                   ![d].queued = IF r.enq THEN @ + 1 ELSE @,
                                   ![d].noteQueued = r.enq,
                                   ![d].stage = "local"]
               /\ ghost' = [ghost EXCEPT
                      !.enq = IF r.enq THEN @ \cup {nextChange} ELSE @,
                      !.took[d] = @ \cup r.took,
                      !.delAtts = IF r.enq
                                  THEN @ \cup {<<nextChange, pc[d].atts[j]>> :
                                                  j \in DOMAIN pc[d].atts}
                                  ELSE @]
    /\ hist' = NoHist
    /\ nextChange' = nextChange + 1
    /\ UNCHANGED <<cfg, minted, probe>>

\* TryQueueNoteDelete after the loop: QueueNoteChange(OpDelete)
RmQueueNote(d, q) ==
    /\ pc[d].op = "rm" /\ pc[d].stage = "queue" /\ pc[d].i = Len(pc[d].atts)
    /\ LET c == NewChange(nextChange, EntityNote, pc[d].note, OpDelete, NoPayload)
       IN  \E r \in {queueChange(World(d), cfg[d], c, q)} :
               /\ Effective(q.sync, r)
               /\ Commit(d, r)
               /\ pc' = [pc EXCEPT ![d].failed = @ \/ r.err # Ok,
                                   ![d].untouched = @ /\ r.w.store = store[d],
                                   ![d].writable = @ /\ q.writable,
                                   ![d].queued = IF r.enq THEN @ + 1 ELSE @,
                                   ![d].noteQueued = r.enq,
                                   ![d].stage = "local"]
               /\ ghost' = [ghost EXCEPT
                      !.enq = IF r.enq THEN @ \cup {nextChange} ELSE @,
                      !.took[d] = @ \cup r.took,
                      !.delAtts = IF r.enq
                                  THEN @ \cup {<<nextChange, pc[d].atts[j]>> :
                                                  j \in DOMAIN pc[d].atts}
                                  ELSE @]
    /\ hist' = NoHist
    /\ nextChange' = nextChange + 1
    /\ UNCHANGED <<cfg, minted, probe>>

\* memo rm after TryQueueNoteDelete returned: db.DeleteNote, whose error is
\* the error of the command
RmLocal(d) ==
    /\ pc[d].op = "rm" /\ pc[d].stage = "local"
    /\ \E r \in {DeleteNote(store[d], pc[d].note)} :
          /\ store' = [store EXCEPT ![d] = r.store]
          /\ hist' = CmdHist("rm", pc[d].failed, pc[d].untouched, r.err = Ok,
                             r.store.notes[pc[d].note] = NoRow)
    /\ pc' = [pc EXCEPT ![d] = Idle]
    /\ UNCHANGED <<outbox, watermark, relay, cfg, nextChange, minted, ghost, probe>>

\* a Sync call on its own (TrySync).  hist records how it ended; when a
\* database error stopped a batch of n items that applies cleanly otherwise,
\* it keeps the state that applying the n items once yields, and the next
\* call of the same device over the same n items is recorded as the retry.
SyncNow(d, o) ==
    /\ pc[d] = Idle
    /\ \E r \in {TrySync(World(d), cfg[d], o)} :
       LET items == Pull(r.w.relay, watermark[d])
           clean == applyItems(store[d], items, 1, watermark[d], cfg[d], [kind |-> "ok"])
           transient == /\ o.kind = "applyFault" /\ r.phase = "apply"
                        /\ r.err = ErrDB /\ clean.err = Ok
           retry == /\ hist.op = "sync" /\ hist.d = d /\ hist.transient
                    /\ o.kind = "ok" /\ r.phase \in {"apply", "done"}
                    /\ Len(items) = hist.n
       IN  /\ Effective(o, r)
           /\ Commit(d, r)
           /\ hist' = IF retry
                      THEN [op |-> "retry", d |-> d, phase |-> r.phase,
                            once |-> (r.w.store = hist.once)]
                      ELSE IF transient
                      THEN [op |-> "sync", d |-> d, phase |-> r.phase,
                            transient |-> TRUE, n |-> Len(items), once |-> clean.store]
                      ELSE [op |-> "sync", d |-> d, phase |-> r.phase,
                            transient |-> FALSE]
           /\ ghost' = [ghost EXCEPT !.took[d] = @ \cup r.took]
    /\ UNCHANGED <<cfg, pc, nextChange, minted, probe>>

(***************************************************************************)
(* The system: two logged-in devices of one account and their relay; d1    *)
(* has auto-sync enabled, d2 syncs on request only.                        *)
(***************************************************************************)
Init ==
    /\ InitBase
    /\ cfg = [d \in Devices |-> ConfigOf(d, d = "d1")]

Next ==
    \E d \in Devices :
        \/ \E in \in AddInputs, q \in QueueOutcomes(cfg[d], SyncOutcomes) : Add(d, in, q)
        \/ \E id \in NoteIds, content \in EditContents, times \in EditTimes,
                 q \in QueueOutcomes(cfg[d], SyncOutcomes) :
              Edit(d, id, content, times, q)
        \/ \E o \in SyncOutcomes : SyncNow(d, o)

Spec == Init /\ [][Next]_vars

\* C2: the watermark never advances to or past the sequence number of a
\* pulled change whose Open or Apply failed: every sequence number at or
\* below a device's watermark belongs to a change that this device applied
\* successfully, with the effect the change describes.
C2_WatermarkBehindFailure ==
    \A d \in Devices : \A s \in 1..watermark[d] : s \in ghost.took[d]

\* a Sync that applied the first pulled change and failed on a later one:
\* the watermark stays below the change that was applied
C2_Witness ==
    /\ hist.op = "sync" /\ hist.phase \in {"open", "apply"}
    /\ watermark[hist.d] + 1 \in ghost.took[hist.d]
    /\ watermark[hist.d] + 1 < Len(relay)

\* C4: a Sync that returns a transport, cryptographic or apply failure
\* commits nothing of the attempted batch: a failed push acknowledges no
\* outbox entry (outbox and relay keep their contents), and a failed pull,
\* open or apply leaves the watermark at its value before the call.
C4_NoPartialCommit ==
    [][hist'.op \in {"sync", "retry"} =>
          /\ hist'.phase = "push" =>
                /\ outbox'[hist'.d] = outbox[hist'.d]
                /\ relay' = relay
                /\ watermark'[hist'.d] = watermark[hist'.d]
          /\ hist'.phase \in {"pull", "open", "apply"} =>
                watermark'[hist'.d] = watermark[hist'.d]]_vars

\* a Sync that pushed its batch, then failed in pull, open or apply, with
\* changes on the relay beyond the unchanged watermark
C4_Witness ==
    /\ hist.op = "sync" /\ hist.phase \in {"pull", "open", "apply"}
    /\ outbox[hist.d] = <<>>
    /\ watermark[hist.d] < Len(relay)
    /\ \E i \in 1..Len(relay) : relay[i].deviceID = hist.d

\* C5: an outbox entry is removed only after the relay accepted it: every
\* change whose enqueue succeeded is still in the outbox of some device or
\* present in the relay's log.
C5_EnqueuedNeverLost ==
    \A cid \in ghost.enq :
        \/ \E d \in Devices : \E i \in 1..Len(outbox[d]) :
              outbox[d][i].change.changeID = cid
        \/ \E i \in 1..Len(relay) : relay[i].change.changeID = cid

\* after a failed push the entry is still in the outbox, while an earlier
\* entry, pushed with success, is on the relay and no longer in the outbox
C5_Witness ==
    /\ hist.op = "sync" /\ hist.phase = "push"
    /\ outbox[hist.d] # <<>>
    /\ \E i \in 1..Len(relay) : relay[i].deviceID = hist.d

\* C9: last writer wins by relay sequence: on a device that has nothing left
\* to push and has applied the whole relay log, the local note equals the
\* payload of the upsert of that note with the highest sequence number
\* (title, content, tag set, and both timestamps in whole seconds).
C9_LastWriterWins ==
    \A d \in Devices : \A n \in NoteIds :
        LET ups == {i \in 1..Len(relay) :
                      /\ relay[i].change.entity = EntityNote
                      /\ relay[i].change.entityID = n}
        IN  (/\ outbox[d] = <<>> /\ pc[d] = Idle
             /\ watermark[d] = Len(relay)
             /\ ups # {}
             /\ \A i \in ups : ~IsDelete(relay[i].change))
            => LET last == CHOOSE i \in ups : \A j \in ups : j <= i
                   p == relay[last].change.payload
                   row == store[d].notes[n]
               IN  /\ row # NoRow
                   /\ row.title = p.title
                   /\ row.content = p.content
                   /\ store[d].note_tags[n] = {NewTag(p.tags[j]) : j \in DOMAIN p.tags}
                   /\ Unix(row.created_at) = p.created_at
                   /\ Unix(row.updated_at) = p.updated_at

\* both devices are in sync, the relay holds an upsert of d1 followed by a
\* different upsert of d2 for the same note that was created earlier, and
\* d1, the producer of the lower-sequence upsert, holds the payload of d2
C9_Witness ==
    /\ \A d \in Devices : outbox[d] = <<>> /\ watermark[d] = Len(relay)
    /\ \E i, j \in 1..Len(relay) :
          /\ i < j
          /\ relay[i].deviceID = "d1" /\ relay[j].deviceID = "d2"
          /\ relay[i].change.entityID = relay[j].change.entityID
          /\ relay[i].change.changeID > relay[j].change.changeID
          /\ relay[i].change.payload.content # relay[j].change.payload.content
          /\ \A k \in 1..Len(relay) : k <= j
          /\ store["d1"].notes[relay[j].change.entityID].content
                = relay[j].change.payload.content

(***************************************************************************)
(* The same two devices with memo rm of a note without attachments; the    *)
(* failures are that of a push and a database error that is gone on the    *)
(* next call.                                                              *)
(***************************************************************************)
FaultOutcomes ==
    {[kind |-> "ok"], [kind |-> "pushFail"]}
    \cup {[kind |-> "applyFault", k |-> k, fault |-> f] : k \in FaultAt, f \in FaultPoints}

NextRetry ==
    \E d \in Devices :
        \/ \E in \in AddInputs, q \in QueueOutcomes(cfg[d], FaultOutcomes) : Add(d, in, q)
        \/ \E id \in NoteIds, content \in Contents, times \in EditTimes,
                 q \in QueueOutcomes(cfg[d], FaultOutcomes) :
              Edit(d, id, content, times, q)
        \/ \E id \in NoteIds : RmStart(d, id, <<>>)
        \/ \E q \in QueueOutcomes(cfg[d], FaultOutcomes) : RmQueueNote(d, q)
        \/ RmLocal(d)
        \/ \E o \in FaultOutcomes : SyncNow(d, o)

SpecRetry == Init /\ [][NextRetry]_vars

\* C3: when Apply fails on the k-th of n pulled changes and the cause is
\* gone, the next Sync re-pulls the n changes from the same watermark, all n
\* apply without error, and the local state equals that of applying the n
\* changes once in order.
C3_RetryConverges ==
    hist.op = "retry" => (hist.phase = "done" /\ hist.once)

(***************************************************************************)
(* The CLI write commands of the two devices with an outbox that may       *)
(* refuse a write and a relay that may be unreachable.                     *)
(***************************************************************************)
TagInputs == {"T ", "u"}

PushOutcomes == {[kind |-> "ok"], [kind |-> "pushFail"]}

NextCli ==
    \E d \in Devices :
        \/ \E in \in AddInputs, q \in EnqueueOutcomes(cfg[d], PushOutcomes) : Add(d, in, q)
        \/ \E id \in NoteIds, content \in Contents, times \in EditTimes,
                 q \in EnqueueOutcomes(cfg[d], PushOutcomes) :
              Edit(d, id, content, times, q)
        \/ \E id \in NoteIds, tagName \in TagInputs,
                 q \in EnqueueOutcomes(cfg[d], PushOutcomes) : TagAdd(d, id, tagName, q)
        \/ \E id \in NoteIds, tagName \in TagInputs,
                 q \in EnqueueOutcomes(cfg[d], PushOutcomes) : TagRm(d, id, tagName, q)
        \/ \E id \in NoteIds : RmStart(d, id, <<>>)
        \/ \E q \in EnqueueOutcomes(cfg[d], PushOutcomes) : RmQueueNote(d, q)
        \/ RmLocal(d)
        \/ \E o \in PushOutcomes : SyncNow(d, o)

SpecCli == Init /\ [][NextCli]_vars

\* C14: for add, edit, tag add/rm and rm, a failure to enqueue or a failed
\* auto-sync never prevents the local write and never makes the command
\* fail: the local write is in effect and the command reports success.
C14_CaptureFailureHarmless ==
    (hist.op = "cmd" /\ hist.failed) => (hist.ok /\ hist.kept)

(***************************************************************************)
(* The same two devices with an imported note that carries attachments;    *)
(* the only failure is that of a push.                                     *)
(***************************************************************************)
AttachmentLists == Lists(AttIds) \cup Lists({"a1"}) \cup Lists({"a2"}) \cup Lists({})

NextRm ==
    \E d \in Devices :
        \/ \E n \in 1..2 : Import(d, n)
        \/ \E id \in NoteIds, content \in Contents, times \in EditTimes,
                 q \in QueueOutcomes(cfg[d], PushOutcomes) :
              Edit(d, id, content, times, q)
        \/ \E a \in AttIds, q \in QueueOutcomes(cfg[d], PushOutcomes) :
              QueueAttachment(d, a, q)
        \/ \E id \in NoteIds, atts \in AttachmentLists : RmStart(d, id, atts)
        \/ \E q \in QueueOutcomes(cfg[d], PushOutcomes) : RmQueueAttachment(d, q)
        \/ \E q \in QueueOutcomes(cfg[d], PushOutcomes) : RmQueueNote(d, q)
        \/ RmLocal(d)
        \/ \E o \in PushOutcomes : SyncNow(d, o)

SpecRm == Init /\ [][NextRm]_vars

\* C6: the delete of every attachment handed to TryQueueNoteDelete is
\* enqueued before the delete of the note, and outbox and relay keep that
\* order: wherever the note delete is, in an outbox or on the relay, the
\* delete of each of these attachments precedes it.
C6_AttachmentDeletesFirst ==
    \A pair \in ghost.delAtts :
        LET cid == pair[1]
            isAttDelete(e) == /\ e.change.entity = EntityAttachment
                              /\ e.change.entityID = pair[2]
                              /\ IsDelete(e.change)
                              /\ e.change.changeID < cid
        IN  /\ \A j \in 1..Len(relay) :
                  relay[j].change.changeID = cid
                  => \E i \in 1..(j - 1) : isAttDelete(relay[i])
            /\ \A d \in Devices : \A j \in 1..Len(outbox[d]) :
                  outbox[d][j].change.changeID = cid
                  => \/ \E i \in 1..(j - 1) : isAttDelete(outbox[d][i])
                     \/ \E i \in 1..Len(relay) : isAttDelete(relay[i])

\* the deletes of a note with two attachments have reached the relay
C6_Witness ==
    /\ Cardinality(ghost.delAtts) = 2
    /\ \E pair \in ghost.delAtts : \E j \in 1..Len(relay) :
          relay[j].change.changeID = pair[1]

\* C7: a failure of the auto-triggered Sync is not fatal to the capture:
\* when TryQueueNoteDelete has returned for a note with k attachments, with
\* a derived key and a writable outbox, the k attachment deletes and the
\* note delete have all been enqueued.
C7_AllDeletesEnqueued ==
    \A d \in Devices :
        (pc[d].op = "rm" /\ pc[d].stage = "local" /\ pc[d].writable)
        => pc[d].queued = Len(pc[d].atts) + 1

\* C8: every attachment in a device's database references a note that
\* exists in that database.
C8_NoDanglingAttachment ==
    \A d \in Devices : \A a \in AttIds :
        store[d].attachments[a] # NoRow
        => /\ store[d].attachments[a].note_id \in NoteIds
           /\ store[d].notes[store[d].attachments[a].note_id] # NoRow

\* a device applied the delete of a note that another device produced, an
\* upsert of an attachment of that note follows it on the relay, and the
\* device holds neither the note nor the attachment
C8_Witness ==
    \E d \in Devices : \E i, j \in 1..Len(relay) :
        /\ i < j
        /\ i \in ghost.took[d]
        /\ relay[i].change.entity = EntityNote /\ IsDelete(relay[i].change)
        /\ relay[i].deviceID # d
        /\ relay[j].change.entity = EntityAttachment /\ ~IsDelete(relay[j].change)
        /\ relay[j].change.payload.note_id = relay[i].change.entityID
        /\ store[d].notes[relay[i].change.entityID] = NoRow
        /\ store[d].attachments[relay[j].change.entityID] = NoRow

\* C13: with key material configured, every operation that writes a note or
\* an attachment to the local store enqueues a corresponding change: every
\* note and every attachment in a device's database has an upsert change
\* for its id in that device's outbox or on the relay.
C13_EveryWriteCaptured ==
    \A d \in Devices :
        LET captured(entity, id) ==
                \/ \E i \in 1..Len(outbox[d]) :
                      /\ outbox[d][i].change.entity = entity
                      /\ outbox[d][i].change.entityID = id
                      /\ ~IsDelete(outbox[d][i].change)
                \/ \E i \in 1..Len(relay) :
                      /\ relay[i].change.entity = entity
                      /\ relay[i].change.entityID = id
                      /\ ~IsDelete(relay[i].change)
        IN  /\ \A n \in NoteIds :
                  store[d].notes[n] # NoRow => captured(EntityNote, n)
            /\ \A a \in AttIds :
                  store[d].attachments[a] # NoRow => captured(EntityAttachment, a)


(***************************************************************************)
(* The Syncer API under every configuration: device d1's configuration     *)
(* file and environment change between calls; a caller builds a Syncer    *)
(* from the loaded configuration and queues a note change or calls Sync.  *)
(***************************************************************************)
\* what LoadConfig can return on device d: each setting present or empty,
\* the derived key also malformed
Configs(d) ==
    {[server |-> s, token |-> t, userID |-> u, deviceID |-> d,
      derivedKey |-> k, autoSync |-> a] :
        s \in {"", "https://relay"}, t \in {"", "token"}, u \in {"", "user"},
        k \in {"", "invalid-key-format", "seed"}, a \in BOOLEAN}

\* the configuration file or the MEMO_SYNC_* environment changes
SetConfig(d, c) ==
    /\ pc[d] = Idle
    /\ c # cfg[d]
    /\ cfg' = [cfg EXCEPT ![d] = c]
    /\ hist' = NoHist
    /\ UNCHANGED <<store, outbox, watermark, relay, pc, nextChange, minted,
                   ghost, probe>>

\* the record of an API call: the error of NewSyncer, the error and the last
\* phase of the method called, whether the relay was contacted, whether
\* outbox and watermark are what they were before the call, whether the
\* watermark is, and whether the outbox before the call is the entries the
\* call put on the relay followed by the outbox after the call; kept:
\* whether the database is what it was before the call; from: the
\* watermark before the call
ApiHist(call, d, newErr, r) ==
    [op |-> "api", call |-> call, d |-> d, newErr |-> newErr, err |-> r.err,
     net |-> r.phase \in {"push", "pull", "open", "apply", "done"}
             \/ r.w.relay # relay,
     same |-> r.w.outbox = outbox[d] /\ r.w.watermark = watermark[d],
     phase |-> r.phase,
     kept |-> r.w.store = store[d],
     wm |-> r.w.watermark = watermark[d],
     from |-> watermark[d],
     moved |-> outbox[d] = SubSeq(r.w.relay, Len(relay) + 1, Len(r.w.relay))
                             \o r.w.outbox]

\* NewSyncer(cfg, db) followed by QueueNoteChange for note n2
ApiQueue(d, q) ==
    /\ pc[d] = Idle
    /\ nextChange <= MaxChanges
    /\ NewSyncer(cfg[d]) = Ok
    /\ LET change == NewChange(nextChange, EntityNote, "n2", OpUpsert,
                               NotePayload("A", "x", <<>>, 1, 1))
           r == queueChange(World(d), cfg[d], change, q)
       IN  /\ Effective(q.sync, r)
           /\ Commit(d, r)
           /\ hist' = ApiHist("queue", d, Ok, r)
           /\ ghost' = Captured(d, r, nextChange, "n2")
    /\ nextChange' = nextChange + 1
    /\ UNCHANGED <<cfg, pc, minted, probe>>

\* NewSyncer(cfg, db) followed, if it returned a Syncer, by Sync(ctx)
ApiSync(d, o) ==
    /\ pc[d] = Idle
    /\ LET e == NewSyncer(cfg[d])
           r == IF e = Ok THEN Sync(World(d), cfg[d], o)
                ELSE Out(World(d), e, "new", {}, FALSE)
       IN  /\ Effective(o, r)
           /\ Commit(d, r)
           /\ hist' = ApiHist("sync", d, e, r)
           /\ ghost' = [ghost EXCEPT !.took[d] = @ \cup r.took]
    /\ UNCHANGED <<cfg, pc, nextChange, minted, probe>>

NextConfig ==
    \/ \E c \in Configs("d1") : SetConfig("d1", c)
    \/ \E d \in Devices :
          \/ \E q \in QueueOutcomes(cfg[d], PushOutcomes) : ApiQueue(d, q)
          \/ \E o \in PushOutcomes : ApiSync(d, o)

SpecConfig == Init /\ [][NextConfig]_vars

\* C23: a QueueNoteChange call runs Sync exactly when AutoSync is set and
\* relay address, auth token and account id are all present; otherwise it
\* returns success without contacting the relay, and the change is the
\* last entry of the outbox, with the watermark as it was.
C23_AutoSyncExactly ==
    (hist.op = "api" /\ hist.call = "queue")
    => LET c == cfg[hist.d]
           q == outbox[hist.d]
           trigger == c.autoSync /\ c.server # "" /\ c.token # "" /\ c.userID # ""
       IN  /\ hist.net <=> trigger
           /\ ~trigger => /\ hist.err = Ok
                          /\ q # <<>>
                          /\ q[Len(q)].change.changeID = nextChange - 1
                          /\ hist.wm

\* an enqueue with AutoSync off on a fully configured device, and one with
\* AutoSync on and no auth token, each left behind an earlier pending change
C23_Witness ==
    /\ hist.op = "api" /\ hist.call = "queue" /\ ~hist.net
    /\ Len(outbox[hist.d]) = 2
    /\ \/ ~cfg[hist.d].autoSync /\ canSync(cfg[hist.d])
       \/ cfg[hist.d].autoSync /\ cfg[hist.d].token = ""

\* C15: with an empty or malformed derived key NewSyncer fails, and with the
\* relay address, the auth token or the account id empty Sync returns the
\* "sync not configured" error; in both cases the relay is not contacted
\* and the outbox and the watermark are what they were before the call.
C15_NotConfiguredShortCircuit ==
    (hist.op = "api" /\ hist.call = "sync")
    => LET c == cfg[hist.d]
       IN  /\ c.derivedKey \in {"", "invalid-key-format"}
                => /\ hist.newErr \in {ErrNoKey, ErrBadKey}
                   /\ ~hist.net /\ hist.same
           /\ (c.derivedKey = "seed" /\ (c.server = "" \/ c.token = "" \/ c.userID = ""))
                => /\ hist.newErr = Ok /\ hist.err = ErrNotConfigured
                   /\ ~hist.net /\ hist.same

\* a Sync call returned "sync not configured" on a device whose outbox holds
\* a change and whose watermark is past 0
C15_Witness ==
    /\ hist.op = "api" /\ hist.call = "sync" /\ hist.d = "d1"
    /\ hist.err = ErrNotConfigured
    /\ cfg["d1"].token = ""
    /\ outbox["d1"] # <<>>
    /\ watermark["d1"] > 0



\* C26: every entry a device pushes to the relay carries, in the AAD it was
\* sealed under, the account id and the device id the device pushes with.
C26_PushedUnderSealedAccount ==
    [][\A i \in (Len(relay) + 1)..Len(relay') :
          /\ relay'[i].userID = cfg[hist'.d].userID
          /\ relay'[i].deviceID = cfg[hist'.d].deviceID]_vars


\* C27: a QueueNoteChange call that returns an error has not added its change
\* to the outbox: the outbox is what it was before the call.
C27_ErrorMeansNotEnqueued ==
    (hist.op = "api" /\ hist.call = "queue" /\ hist.err # Ok)
    => ((nextChange - 1) \notin ghost.enq /\ hist.same)

(***************************************************************************)
(* Cancellation: Sync calls whose context is cancelled while they run.     *)
(***************************************************************************)
CancelOutcomes ==
    {[kind |-> "cancel", at |-> at, k |-> 0] : at \in {"push", "pull"}}
    \cup {[kind |-> "cancel", at |-> "apply", k |-> k] : k \in FaultAt}

NextCancel ==
    \E d \in Devices :
        \/ \E q \in QueueOutcomes(cfg[d], {[kind |-> "ok"]}) : ApiQueue(d, q)
        \/ \E o \in {[kind |-> "ok"]} \cup CancelOutcomes : ApiSync(d, o)

SpecCancel == Init /\ [][NextCancel]_vars

PendingCountLimit == 1000
PendingChangesLimit == 100

\* a PendingCount that takes the entries it counted out of the outbox
PendingCount_Pop(w) ==
    LET batch == DequeueBatch(w.outbox, PendingCountLimit)
    IN  [w |-> [w EXCEPT !.outbox = SubSeq(@, Len(batch) + 1, Len(@))],
         res |-> Len(batch)]

\* Syncer.PendingCount
PendingCount(w) ==
    LET batch == DequeueBatch(w.outbox, PendingCountLimit)
    IN  [w |-> w, res |-> Len(batch)]

\* the PendingItem of an outbox entry
PendingItem(e) == [ChangeID |-> e.change.changeID, Entity |-> e.change.entity]

\* Syncer.PendingChanges
PendingChanges(w) ==
    LET batch == DequeueBatch(w.outbox, PendingChangesLimit)
    IN  [w |-> w, res |-> [i \in DOMAIN batch |-> PendingItem(batch[i])]]

\* the record of an introspection call: its result, whether the outbox is
\* what it was before the call, the results of the calls made on the device
\* since its last other step, whether this call was made before among
\* them, and then whether it returned the same result
PendHist(call, d, r) ==
    LET prev == IF hist.op = "pending" /\ hist.d = d THEN hist.last
                ELSE [count |-> [has |-> FALSE], changes |-> [has |-> FALSE]]
    IN  [op |-> "pending", call |-> call, d |-> d, res |-> r.res,
         kept |-> r.w.outbox = outbox[d],
         again |-> prev[call].has,
         equal |-> IF prev[call].has THEN r.res = prev[call].res ELSE TRUE,
         last |-> [prev EXCEPT ![call] = [has |-> TRUE, res |-> r.res]]]

\* NewSyncer(cfg, db) followed by PendingCount(ctx)
PendingCountCall(d) ==
    /\ pc[d] = Idle
    /\ NewSyncer(cfg[d]) = Ok
    /\ LET r == PendingCount(World(d))
       IN  /\ Commit(d, r)
           /\ hist' = PendHist("count", d, r)
    /\ UNCHANGED <<cfg, pc, nextChange, minted, ghost, probe>>

\* NewSyncer(cfg, db) followed by PendingChanges(ctx)
PendingChangesCall(d) ==
    /\ pc[d] = Idle
    /\ NewSyncer(cfg[d]) = Ok
    /\ LET r == PendingChanges(World(d))
       IN  /\ Commit(d, r)
           /\ hist' = PendHist("changes", d, r)
    /\ UNCHANGED <<cfg, pc, nextChange, minted, ghost, probe>>

\* NewSyncer(cfg, db) followed by QueueNoteChange for note n2, on a device
\* that queues up to MaxPending changes
QueueNoteChangeCall(d, q) ==
    /\ pc[d] = Idle
    /\ nextChange <= MaxPending
    /\ NewSyncer(cfg[d]) = Ok
    /\ LET change == NewChange(nextChange, EntityNote, "n2", OpUpsert,
                               NotePayload("A", "x", <<>>, 1, 1))
           r == queueChange(World(d), cfg[d], change, q)
       IN  /\ Effective(q.sync, r)
           /\ Commit(d, r)
           /\ hist' = ApiHist("queue", d, Ok, r)
           /\ ghost' = Captured(d, r, nextChange, "n2")
    /\ nextChange' = nextChange + 1
    /\ UNCHANGED <<cfg, pc, minted, probe>>

\* the device that works offline: auto-sync is disabled on it
OfflineDevices == {d \in Devices : ~cfg[d].autoSync}

NextPending ==
    \E d \in OfflineDevices :
        \/ \E q \in QueueOutcomes(cfg[d], {[kind |-> "ok"]}) : QueueNoteChangeCall(d, q)
        \/ ApiSync(d, [kind |-> "ok"])
        \/ PendingCountCall(d)
        \/ PendingChangesCall(d)

SpecPending == Init /\ [][NextPending]_vars

\* C17: PendingCount and PendingChanges leave the outbox as it is, and a
\* call returns the same count, or the same entries, as the call before it
\* on the same device when only such calls were made in between.
C17_PendingIsPeek ==
    hist.op = "pending" => (hist.kept /\ hist.equal)

\* a PendingCount call after a PendingCount and a PendingChanges call, on
\* an outbox of three entries
C17_Witness ==
    /\ hist.op = "pending" /\ hist.call = "count" /\ hist.again
    /\ hist.last.changes.has
    /\ hist.res = 3
    /\ Len(outbox[hist.d]) = 3

\* C18: PendingCount returns the number of entries in the outbox, that is
\* of the enqueued changes not yet acknowledged, PendingChanges lists
\* exactly these entries, and so the count equals the length of the list,
\* however many changes are pending.
C18_PendingExact ==
    hist.op = "pending"
    => LET q == outbox[hist.d]
       IN  /\ hist.call = "count"
                => /\ hist.res = Len(q)
                   /\ hist.res = Len(PendingChanges(World(hist.d)).res)
           /\ hist.call = "changes"
                => hist.res = [i \in DOMAIN q |-> PendingItem(q[i])]


(***************************************************************************)
(* Malformed changes: another client of the account puts changes on the    *)
(* relay that the applier cannot decode, next to well-formed ones, and the *)
(* devices sync.                                                           *)
(***************************************************************************)
PeerNotePayload == NotePayload("A", "x", <<"t">>, 2, 2)
PeerAttachmentPayload == AttachmentPayload("n1", "f", "text/plain", "p", 2)

WellFormedChanges(cid) ==
    {NewChange(cid, EntityNote, "n1", OpUpsert, PeerNotePayload),
     NewChange(cid, EntityAttachment, "a1", OpUpsert, PeerAttachmentPayload)}

\* an upsert whose payload json.Unmarshal rejects, a change whose entity id
\* uuid.Parse rejects, and an attachment upsert whose note id or base64
\* data cannot be parsed
MalformedChanges(cid) ==
    {NewChange(cid, EntityNote, "n1", OpUpsert, Undecodable),
     NewChange(cid, EntityNote, BadId, OpUpsert, PeerNotePayload),
     NewChange(cid, EntityNote, BadId, OpDelete, NoPayload),
     NewChange(cid, EntityAttachment, "a1", OpUpsert, Undecodable),
     NewChange(cid, EntityAttachment, BadId, OpUpsert, PeerAttachmentPayload),
     NewChange(cid, EntityAttachment, BadId, OpDelete, NoPayload),
     NewChange(cid, EntityAttachment, "a1", OpUpsert,
               [PeerAttachmentPayload EXCEPT !.note_id = BadId]),
     NewChange(cid, EntityAttachment, "a1", OpUpsert,
               [PeerAttachmentPayload EXCEPT !.data = InvalidB64])}

Malformed(c) ==
    /\ c.entity \in {EntityNote, EntityAttachment}
    /\ \/ c.entityID = BadId
       \/ /\ ~IsDelete(c)
          /\ \/ c.payload = Undecodable
             \/ /\ c.entity = EntityAttachment
                /\ c.payload.note_id = BadId \/ c.payload.data = InvalidB64

\* a client of the same account, holding the same key, pushes change c
PeerPush(c) ==
    /\ nextChange <= MaxChanges
    /\ relay' = Append(relay, Seal(ConfigOf("peer", FALSE), c))
    /\ nextChange' = nextChange + 1
    /\ hist' = NoHist
    /\ UNCHANGED <<store, outbox, watermark, cfg, pc, minted, ghost, probe>>

NextMalformed ==
    \/ \E c \in WellFormedChanges(nextChange) \cup MalformedChanges(nextChange) :
          PeerPush(c)
    \/ \E d \in Devices : ApiSync(d, [kind |-> "ok"])

SpecMalformed == Init /\ [][NextMalformed]_vars

DecodeErrors == {ErrInvalidID, ErrUnmarshal, ErrBase64}

\* C19: applying a note or attachment change whose payload cannot be
\* decoded or whose entity id, note id or base64 data cannot be parsed
\* returns an error and leaves the database unchanged, and the batch stops
\* there: the Sync returns the error, the watermark never reaches the
\* change, and no change behind it on the relay is applied.
C19_MalformedAborts ==
    /\ (/\ hist.op = "api" /\ hist.call = "sync"
        /\ watermark[hist.d] < Len(relay)
        /\ Malformed(relay[watermark[hist.d] + 1].change))
       => (hist.err \in DecodeErrors /\ hist.phase = "apply" /\ hist.kept /\ hist.wm)
    /\ \A i \in 1..Len(relay) :
          Malformed(relay[i].change)
          => \A d \in Devices :
                /\ watermark[d] < i
                /\ \A j \in ghost.took[d] : j < i

\* a Sync that applied a note and its attachment and stopped at a malformed
\* upsert of that attachment, with a well-formed change behind it
C19_Witness ==
    /\ hist.op = "api" /\ hist.call = "sync"
    /\ hist.err \in DecodeErrors
    /\ Len(relay) = 3
    /\ watermark[hist.d] = 1
    /\ store[hist.d].notes["n1"] # NoRow
    /\ Malformed(relay[2].change)
    /\ ~Malformed(relay[3].change)


(***************************************************************************)
(* Incomplete payloads: changes on the relay whose payload is a JSON       *)
(* object that lacks a field.                                              *)
(***************************************************************************)
\* the object p without key f
Without(p, f) == [g \in DOMAIN p \ {f} |-> p[g]]

NoteRequired == {"title", "content", "created_at", "updated_at"}
AttachmentRequired == {"note_id", "filename", "data"}

IncompleteChanges(cid) ==
    {NewChange(cid, EntityNote, "n1", OpUpsert, Without(PeerNotePayload, f)) :
        f \in NoteRequired}
    \cup {NewChange(cid, EntityAttachment, "a1", OpUpsert,
                    Without(PeerAttachmentPayload, f)) : f \in AttachmentRequired}

Incomplete(c) ==
    /\ ~IsDelete(c)
    /\ c.payload # Undecodable
    /\ \/ c.entity = EntityNote /\ ~(NoteRequired \subseteq DOMAIN c.payload)
       \/ c.entity = EntityAttachment /\ ~(AttachmentRequired \subseteq DOMAIN c.payload)

NextIncomplete ==
    \/ \E c \in WellFormedChanges(nextChange) \cup IncompleteChanges(nextChange) :
          PeerPush(c)
    \/ \E d \in Devices : ApiSync(d, [kind |-> "ok"])

SpecIncomplete == Init /\ [][NextIncomplete]_vars

\* C20: applying an upsert whose payload decodes but lacks a required field
\* (note: title, content or a timestamp; attachment: note id, filename or
\* data) is an error that stops the batch: the Sync returns an error with
\* the database and the watermark unchanged, and no watermark ever reaches
\* such a change.
C20_IncompleteAborts ==
    /\ (/\ hist.op = "api" /\ hist.call = "sync"
        /\ watermark[hist.d] < Len(relay)
        /\ Incomplete(relay[watermark[hist.d] + 1].change))
       => (hist.err # Ok /\ hist.phase = "apply" /\ hist.kept /\ hist.wm)
    /\ \A i \in 1..Len(relay) :
          Incomplete(relay[i].change)
          => \A d \in Devices : watermark[d] < i


(***************************************************************************)
(* Unknown entity kinds: a newer client of the account puts changes of a   *)
(* kind this program does not know on the relay.                           *)
(***************************************************************************)
UnknownChanges(cid) ==
    {NewChange(cid, "task", "n1", OpUpsert, PeerNotePayload),
     NewChange(cid, "task", "n1", OpDelete, NoPayload),
     NewChange(cid, "task", BadId, OpUpsert, Undecodable)}

Unknown(c) == c.entity \notin {EntityNote, EntityAttachment}

NextUnknown ==
    \/ \E c \in WellFormedChanges(nextChange) \cup UnknownChanges(nextChange) :
          PeerPush(c)
    \/ \E d \in Devices : ApiSync(d, [kind |-> "ok"])

SpecUnknown == Init /\ [][NextUnknown]_vars

\* C21: a change whose entity kind is neither note nor attachment is applied
\* with success and without effect: in a pulled batch such a change is
\* passed whenever the entries before it were, a batch made of such changes
\* only ends with success and the watermark at the relay's last sequence
\* number, and a Sync that moved the watermark over such changes only left
\* the database as it was.
C21_UnknownIgnored ==
    (hist.op = "api" /\ hist.call = "sync")
    => LET d == hist.d
       IN  /\ \A i \in (hist.from + 1)..Len(relay) :
                (/\ Unknown(relay[i].change)
                 /\ \A j \in (hist.from + 1)..(i - 1) : j \in ghost.took[d])
                => i \in ghost.took[d]
           /\ (\A i \in (hist.from + 1)..watermark[d] : Unknown(relay[i].change))
                => hist.kept
           /\ (\A i \in (hist.from + 1)..Len(relay) : Unknown(relay[i].change))
                => (hist.err = Ok /\ watermark[d] = Len(relay))

\* a Sync of a device that holds note n1 moved the watermark over two
\* changes of an unknown kind, one of them a delete that carries n1's id
C21_Witness ==
    /\ hist.op = "api" /\ hist.call = "sync" /\ hist.err = Ok
    /\ hist.from = 1 /\ watermark[hist.d] = 3 /\ Len(relay) = 3
    /\ Unknown(relay[2].change) /\ Unknown(relay[3].change)
    /\ \E i \in 2..3 : IsDelete(relay[i].change) /\ relay[i].change.entityID = "n1"
    /\ store[hist.d].notes["n1"] # NoRow
    /\ hist.kept


(***************************************************************************)
(* The helpers of the CLI under every configuration: TrySync and the       *)
(* TryQueue functions, called on device d1 while its configuration changes.*)
(***************************************************************************)
\* the arguments of the TryQueue calls: a note upsert, an attachment upsert,
\* and the delete of a note without and with an attachment
HelperCalls ==
    {[call |-> "note", n |-> 1], [call |-> "attachment", n |-> 1],
     [call |-> "delete", atts |-> <<>>, n |-> 1],
     [call |-> "delete", atts |-> <<"a1">>, n |-> 2]}

\* one of TryQueueNoteChange, TryQueueAttachmentChange, TryQueueNoteDelete
HelperQueue(d, h, q) ==
    /\ pc[d] = Idle
    /\ nextChange + h.n - 1 <= MaxBatch
    /\ LET w == World(d)
           r == CASE h.call = "note" ->
                       TryQueueChange(w, cfg[d],
                           NewChange(nextChange, EntityNote, "n1", OpUpsert,
                                     PeerNotePayload), q)
                  [] h.call = "attachment" ->
                       TryQueueChange(w, cfg[d],
                           NewChange(nextChange, EntityAttachment, "a1", OpUpsert,
                                     PeerAttachmentPayload), q)
                  [] h.call = "delete" ->
                       TryQueueNoteDelete(w, cfg[d], nextChange, "n1", h.atts, q)
       IN  /\ Effective(q.sync, r)
           /\ Commit(d, r)
           /\ hist' = ApiHist(h.call, d, NewSyncer(cfg[d]), r)
           /\ ghost' = [ghost EXCEPT !.took[d] = @ \cup r.took]
    /\ nextChange' = nextChange + h.n
    /\ UNCHANGED <<cfg, pc, minted, probe>>

\* TrySync
HelperSync(d, o) ==
    /\ pc[d] = Idle
    /\ LET r == TrySync(World(d), cfg[d], o)
       IN  /\ Effective(o, r)
           /\ Commit(d, r)
           /\ hist' = ApiHist("trysync", d, NewSyncer(cfg[d]), r)
           /\ ghost' = [ghost EXCEPT !.took[d] = @ \cup r.took]
    /\ UNCHANGED <<cfg, pc, nextChange, minted, probe>>

NextHelper ==
    \/ \E c \in Configs("d1") : SetConfig("d1", c)
    \/ \E h \in HelperCalls, o \in PushOutcomes :
          HelperQueue("d1", h, [writable |-> TRUE, sync |-> o])
    \/ \E o \in PushOutcomes : HelperSync("d1", o)

SpecHelper == Init /\ [][NextHelper]_vars

\* C24: TryQueueNoteChange, TryQueueAttachmentChange and TryQueueNoteDelete
\* called without a derived key, and TrySync called with the relay address,
\* the auth token, the account id or the derived key missing, return no
\* error, leave the outbox as it is and do not contact the relay.
C24_HelpersSkipSilently ==
    (hist.op = "api" /\ hist.call \in {"note", "attachment", "delete", "trysync"})
    => LET c == cfg[hist.d]
           missing == IF hist.call = "trysync"
                      THEN c.server = "" \/ c.token = "" \/ c.userID = ""
                           \/ c.derivedKey = ""
                      ELSE c.derivedKey = ""
       IN  missing => (hist.err = Ok /\ ~hist.net /\ hist.same /\ hist.kept)

\* TrySync returned without an error on a device that has a derived key and
\* a pending change but no auth token
C24_Witness ==
    /\ hist.op = "api" /\ hist.call = "trysync" /\ hist.err = Ok
    /\ cfg[hist.d].derivedKey = "seed" /\ cfg[hist.d].token = ""
    /\ outbox[hist.d] # <<>>


(***************************************************************************)
(* The two devices with a relay that is always reachable: notes are added  *)
(* and removed through the CLI, every started command runs to its end and  *)
(* every device keeps calling Sync.                                        *)
(***************************************************************************)
Reachable == [kind |-> "ok"]

NextLive ==
    \E d \in Devices :
        \/ \E in \in AddInputs, q \in QueueOutcomes(cfg[d], {Reachable}) : Add(d, in, q)
        \/ \E id \in NoteIds : RmStart(d, id, <<>>)
        \/ \E q \in QueueOutcomes(cfg[d], {Reachable}) : RmQueueNote(d, q)
        \/ RmLocal(d)
        \/ SyncNow(d, Reachable)

FairLive ==
    \A d \in Devices :
        /\ WF_vars(\E q \in QueueOutcomes(cfg[d], {Reachable}) : RmQueueNote(d, q))
        /\ WF_vars(RmLocal(d))
        /\ WF_vars(SyncNow(d, Reachable))

SpecLive == Init /\ [][NextLive]_vars /\ FairLive

\* C25: with a reachable relay and a log made only of changes the devices
\* captured themselves, every device's Sync eventually succeeds for good
\* with its watermark at the relay's highest sequence number.
C25_NoPermanentBlock ==
    \A d \in Devices : <>[](watermark[d] = Len(relay) /\ outbox[d] = <<>>)


(***************************************************************************)
(* memo add and memo rm on the two devices with a relay that may be        *)
(* unreachable and a database that may refuse the DELETE of memo rm.       *)
(***************************************************************************)
\* the last step of memo rm when db.DeleteNote returns a database error: the
\* row stays and the command fails
RmLocalFault(d) ==
    /\ pc[d].op = "rm" /\ pc[d].stage = "local"
    /\ store[d].notes[pc[d].note] # NoRow
    /\ hist' = [op |-> "rm", d |-> d, note |-> pc[d].note, err |-> ErrDB]
    /\ pc' = [pc EXCEPT ![d] = Idle]
    /\ UNCHANGED <<store, outbox, watermark, relay, cfg, nextChange, minted, ghost, probe>>

NextRmFault ==
    \E d \in Devices :
        \/ \E in \in AddInputs, q \in QueueOutcomes(cfg[d], PushOutcomes) : Add(d, in, q)
        \/ \E id \in NoteIds : RmStart(d, id, <<>>)
        \/ \E q \in QueueOutcomes(cfg[d], PushOutcomes) : RmQueueNote(d, q)
        \/ RmLocal(d)
        \/ RmLocalFault(d)
        \/ \E o \in PushOutcomes : SyncNow(d, o)

SpecRmFault == Init /\ [][NextRmFault]_vars

\* C28: when memo rm ends without having deleted the note from the local
\* database, no delete change for that note captured by this device is in its
\* outbox or on the relay.
C28_DeleteOnlyIfDeleted ==
    (hist.op = "rm" /\ store[hist.d].notes[hist.note] # NoRow)
    => LET isDelete(e) == /\ e.deviceID = hist.d
                          /\ e.change.entity = EntityNote
                          /\ e.change.entityID = hist.note
                          /\ IsDelete(e.change)
       IN  /\ \A i \in 1..Len(outbox[hist.d]) : ~isDelete(outbox[hist.d][i])
           /\ \A i \in 1..Len(relay) : ~isDelete(relay[i])


(***************************************************************************)
(* A Sync call phase by phase: Idle, Pushing, Acknowledging, Pulling,      *)
(* Applying entry by entry, and back to Idle, with the error surfaced from  *)
(* whichever phase failed.  One call is in progress at a time; between     *)
(* calls a peer pushes changes and the offline device enqueues.            *)
(***************************************************************************)
AllIdle == \A d \in Devices : pc[d] = Idle

PhaseOutcomes ==
    {[kind |-> "ok"], [kind |-> "pushFail"], [kind |-> "pullFail"]}
    \cup {[kind |-> "openFail", k |-> k] : k \in FaultAt}

PhaseChanges(cid) ==
    {NewChange(cid, EntityNote, "n1", OpUpsert, PeerNotePayload),
     NewChange(cid, EntityNote, "n1", OpDelete, NoPayload)}

\* the call is over: back to Idle with its result; start and o: the state
\* the call started in and what the environment did to it
SyncReturn(d, err) ==
    /\ pc' = [pc EXCEPT ![d] = Idle]
    /\ hist' = [op |-> "synced", d |-> d, err |-> err,
                applied |-> IF pc[d].phase = "applying" THEN pc[d].i - 1 ELSE 0,
                start |-> pc[d].start, o |-> pc[d].o]

\* SyncWithEvents: the canSync check, then vault.Sync starts with the push
SyncBegin(d, o) ==
    /\ AllIdle
    /\ Effective(o, Sync(World(d), cfg[d], o))
    /\ IF ~canSync(cfg[d])
       THEN /\ hist' = [op |-> "synced", d |-> d, err |-> ErrNotConfigured,
                        applied |-> 0, start |-> World(d), o |-> o]
            /\ pc' = pc
       ELSE /\ pc' = [pc EXCEPT ![d] = [op |-> "sync", phase |-> "pushing", o |-> o,
                                        start |-> World(d), n |-> 0,
                                        items |-> <<>>, i |-> 0]]
            /\ hist' = NoHist
    /\ UNCHANGED <<store, outbox, watermark, relay, cfg, nextChange, minted, ghost, probe>>

\* Pushing: the outbox batch goes to the relay, or the push fails
SyncPush(d) ==
    /\ pc[d].op = "sync" /\ pc[d].phase = "pushing"
    /\ LET batch == DequeueBatch(outbox[d], MaxBatch)
       IN  IF batch # <<>> /\ pc[d].o.kind = "pushFail"
           THEN /\ relay' = relay
                /\ SyncReturn(d, ErrPush)
           ELSE /\ relay' = relay \o batch
                /\ pc' = [pc EXCEPT ![d].phase = "acking", ![d].n = Len(batch)]
                /\ hist' = NoHist
    /\ UNCHANGED <<store, outbox, watermark, cfg, nextChange, minted, ghost, probe>>

\* Acknowledge: the pushed entries leave the outbox
SyncAck(d) ==
    /\ pc[d].op = "sync" /\ pc[d].phase = "acking"
    /\ outbox' = [outbox EXCEPT ![d] = SubSeq(@, pc[d].n + 1, Len(@))]
    /\ pc' = [pc EXCEPT ![d].phase = "pulling"]
    /\ hist' = NoHist
    /\ UNCHANGED <<store, watermark, relay, cfg, nextChange, minted, ghost, probe>>

\* Pulling: everything after the watermark, or the pull fails
SyncPull(d) ==
    /\ pc[d].op = "sync" /\ pc[d].phase = "pulling"
    /\ IF pc[d].o.kind = "pullFail"
       THEN SyncReturn(d, ErrPull)
       ELSE /\ pc' = [pc EXCEPT ![d].phase = "applying",
                                ![d].items = Pull(relay, watermark[d]), ![d].i = 1]
            /\ hist' = NoHist
    /\ UNCHANGED <<store, outbox, watermark, relay, cfg, nextChange, minted, ghost, probe>>

\* Applying that stores the watermark after every applied entry
SyncApply_WatermarkEach(d) ==
    /\ pc[d].op = "sync" /\ pc[d].phase = "applying"
    /\ pc[d].i <= Len(pc[d].items)
    /\ LET i == pc[d].i
           e == pc[d].items[i]
       IN  IF (pc[d].o.kind = "openFail" /\ pc[d].o.k = i) \/ ~Open(cfg[d], e)
           THEN /\ store' = store
                /\ watermark' = watermark
                /\ SyncReturn(d, ErrOpen)
           ELSE LET r == applyChange(store[d], e.change, 0)
                IN  /\ store' = [store EXCEPT ![d] = r.store]
                    /\ IF r.err # Ok
                       THEN /\ watermark' = watermark
                            /\ SyncReturn(d, r.err)
                       ELSE /\ watermark' = [watermark EXCEPT ![d] = @ + 1]
                            /\ pc' = [pc EXCEPT ![d].i = i + 1]
                            /\ hist' = NoHist
    /\ UNCHANGED <<outbox, relay, cfg, nextChange, minted, ghost, probe>>

\* Applying: the next pulled entry is opened and applied, or the call ends
\* with the error of the open or of the apply
SyncApply(d) ==
    /\ pc[d].op = "sync" /\ pc[d].phase = "applying"
    /\ pc[d].i <= Len(pc[d].items)
    /\ LET i == pc[d].i
           e == pc[d].items[i]
       IN  IF (pc[d].o.kind = "openFail" /\ pc[d].o.k = i) \/ ~Open(cfg[d], e)
           THEN /\ store' = store
                /\ watermark' = watermark
                /\ SyncReturn(d, ErrOpen)
           ELSE LET r == applyChange(store[d], e.change, 0)
                IN  /\ store' = [store EXCEPT ![d] = r.store]
                    /\ IF r.err # Ok
                       THEN /\ watermark' = watermark
                            /\ SyncReturn(d, r.err)
                       ELSE /\ watermark' = watermark
                            /\ pc' = [pc EXCEPT ![d].i = i + 1]
                            /\ hist' = NoHist
    /\ UNCHANGED <<outbox, relay, cfg, nextChange, minted, ghost, probe>>

\* the whole batch applied: the watermark is stored and the call returns
SyncWatermark(d) ==
    /\ pc[d].op = "sync" /\ pc[d].phase = "applying"
    /\ pc[d].i > Len(pc[d].items)
    /\ watermark' = [watermark EXCEPT ![d] = @ + Len(pc[d].items)]
    /\ UNCHANGED <<store, outbox, relay>>
    /\ SyncReturn(d, Ok)
    /\ UNCHANGED <<cfg, nextChange, minted, ghost, probe>>

NextPhases ==
    \/ \E c \in PhaseChanges(nextChange) : AllIdle /\ PeerPush(c)
    \/ \E d \in OfflineDevices : AllIdle /\ ApiQueue(d, [writable |-> TRUE, sync |-> Reachable])
    \/ \E d \in Devices :
          \/ \E o \in PhaseOutcomes : SyncBegin(d, o)
          \/ SyncPush(d)
          \/ SyncAck(d)
          \/ SyncPull(d)
          \/ SyncApply(d)
          \/ SyncWatermark(d)

FairPhases ==
    \A d \in Devices :
        WF_vars(SyncPush(d) \/ SyncAck(d) \/ SyncPull(d) \/ SyncApply(d) \/ SyncWatermark(d))

SpecPhases == Init /\ [][NextPhases]_vars /\ FairPhases

\* C29: a Sync call goes through push, acknowledge, pull, apply and
\* watermark update in this order and leaves a phase only for the next one
\* or to return with an error; the relay grows only in the push, the outbox
\* shrinks only in the acknowledge, the database changes only by applying
\* the pulled entry next in ascending sequence order, the watermark is
\* written once, after the last entry applied, and every call returns,
\* with the error and the state that Sync taken as one step yields.
C29_PhaseOrder ==
    /\ [][\A d \in Devices :
            LET p == pc[d]
                q == pc'[d]
                returned == q = Idle /\ hist'.op = "synced" /\ hist'.d = d
                failed == returned /\ hist'.err # Ok
            IN  /\ (p # q /\ p = Idle) => (q.op = "sync" /\ q.phase = "pushing")
                /\ (p # q /\ p # Idle) =>
                     CASE p.phase = "pushing" -> failed \/ (q # Idle /\ q.phase = "acking")
                       [] p.phase = "acking" -> q # Idle /\ q.phase = "pulling"
                       [] p.phase = "pulling" ->
                            \/ failed
                            \/ /\ q # Idle /\ q.phase = "applying" /\ q.i = 1
                               /\ q.items = Pull(relay, watermark[d])
                       [] p.phase = "applying" ->
                            \/ failed
                            \/ returned /\ hist'.err = Ok /\ p.i = Len(p.items) + 1
                            \/ /\ q # Idle /\ q.phase = "applying"
                               /\ q.i = p.i + 1 /\ q.items = p.items
                /\ (p # Idle /\ relay' # relay) => p.phase = "pushing"
                /\ outbox'[d] # outbox[d] =>
                     \/ p # Idle /\ p.phase = "acking"
                     \/ p = Idle /\ Len(outbox'[d]) > Len(outbox[d])
                /\ store'[d] # store[d] =>
                     /\ p # Idle /\ p.phase = "applying" /\ p.i <= Len(p.items)
                     /\ p.items[p.i] = relay[watermark[d] + p.i]
                     /\ store'[d] = applyChange(store[d], p.items[p.i].change, 0).store
                /\ watermark'[d] # watermark[d] =>
                     /\ p # Idle /\ p.phase = "applying" /\ p.i = Len(p.items) + 1
                     /\ returned /\ hist'.err = Ok
                     /\ watermark'[d] = Len(relay)]_vars
    /\ \A d \in Devices : (pc[d] # Idle) ~> (pc[d] = Idle)
    /\ [](hist.op = "synced"
           => LET r == Sync(hist.start, cfg[hist.d], hist.o)
              IN  r.err = hist.err /\ r.w = World(hist.d))

\* a call that pushed a batch, applied two pulled entries and returned
\* success with the watermark at the relay's last sequence number
C29_Witness ==
    /\ hist.op = "synced" /\ hist.err = Ok /\ hist.applied >= 2
    /\ watermark[hist.d] = Len(relay)
    /\ \E i \in 1..Len(relay) : relay[i].deviceID = hist.d


(***************************************************************************)
(* Applier runs on note changes in which a statement of the apply may fail *)
(* with a database error or find its context cancelled: statement 1 is the *)
(* note upsert, 2 the DELETE of the tag links, 2 + j the insert of tag j.  *)
(***************************************************************************)
StatementFaults == {1, 2, 3, 4}

NoteProbeChanges == {c \in ProbeChanges : c.entity = EntityNote}

\* one call of applyChange on d1 whose statement f fails
ProbeApplyFault(c, f) ==
    LET r == applyChange(store["d1"], c, f)
    IN  /\ store' = [store EXCEPT !["d1"] = r.store]
        /\ probe' = [n |-> 1, c |-> c, err |-> r.err, pre |-> store["d1"],
                     first |-> r, fault |-> f]
        /\ UNCHANGED <<outbox, watermark, relay, cfg, pc, nextChange, minted,
                       hist, ghost>>

NextApplyFault ==
    \/ \E c \in NoteProbeChanges : ProbeApply(c)
    \/ \E c \in NoteProbeChanges, f \in StatementFaults : ProbeApplyFault(c, f)

SpecApplyFault == InitApply /\ [][NextApplyFault]_vars

\* C30: a note upsert whose apply returns an error leaves the note row and
\* the note's tag set as they were before the apply.
C30_UpsertAllOrNothing ==
    (probe.n >= 1 /\ probe.c.entity = EntityNote /\ ~IsDelete(probe.c)
        /\ probe.c.entityID \in NoteIds /\ probe.err # Ok)
    => /\ store["d1"].notes[probe.c.entityID] = probe.pre.notes[probe.c.entityID]
       /\ store["d1"].note_tags[probe.c.entityID]
            = probe.pre.note_tags[probe.c.entityID]

====
